---- MODULE Spec2Model ----
(***************************************************************************)
(* A model of the index-consistent batch-mutation engine of google-docs-mcp *)
(* (src/tableHelpers.ts, src/snapshotManager.ts and their callers in       *)
(* src/server.ts).                                                         *)
(*                                                                         *)
(* The remote document is a flat sequence of one-slot tokens; index i of   *)
(* the Docs API is position i of the sequence (index 0 is the leading      *)
(* section break).  A read parses the tokens into structural elements      *)
(* with absolute startIndex/endIndex; a write applies requests strictly in *)
(* order, each one shifting everything after it.                           *)
(***************************************************************************)
EXTENDS Integers, Sequences, FiniteSets, TLC

\* ------------------------------------------------------------------------
\* Tokens of the flat document
\* ------------------------------------------------------------------------
NL == "\n"
TableStart == "T"
RowStart == "R"
CellStart == "C"
TableEnd == "E"
ImageIds == {"i1", "i2"}

\* ------------------------------------------------------------------------
\* Bounds of the model
\* ------------------------------------------------------------------------
MaxCells == 2
MaxEdits == 2
MaxCreates == 12
MaxMoves == 3
RestoreCreates == 2
RestoreMoves == 2
RestoreEdits == 1

\* ------------------------------------------------------------------------
\* Generic helpers
\* ------------------------------------------------------------------------
Min(S) == CHOOSE x \in S : \A y \in S : x <= y

RECURSIVE sortedSeq(_)
sortedSeq(S) == IF S = {} THEN <<>>
                ELSE LET m == Min(S) IN <<m>> \o sortedSeq(S \ {m})

RECURSIVE flatten(_)
flatten(ss) == IF ss = <<>> THEN <<>> ELSE Head(ss) \o flatten(Tail(ss))

NoError == [kind |-> "none", index |-> 0, count |-> 0, row |-> 0]
UserError(kind, index, count, row) ==
    [kind |-> kind, index |-> index, count |-> count, row |-> row]
Ok(v) == [ok |-> TRUE, value |-> v, error |-> NoError]
Throw(e) == [ok |-> FALSE, value |-> <<>>, error |-> e]

\* ------------------------------------------------------------------------
\* Remote read: documents.get -> body.content
\* ------------------------------------------------------------------------
nextPos(flat, from, last, toks) ==
    LET S == {p \in from..last : flat[p] \in toks}
    IN IF S = {} THEN last + 1 ELSE Min(S)

\* textStyle of a run without one; paragraphStyle.namedStyleType by default.
NoTextStyle == [marks |-> {}, link |-> ""]
NORMAL_TEXT == "NORMAL_TEXT"

\* The elements of the paragraph whose terminating newline is at nl.
RECURSIVE parseElements(_, _, _)
parseElements(flat, p, nl) ==
    IF p > nl THEN <<>>
    ELSE IF flat[p] \in ImageIds
    THEN <<[kind |-> "inlineObjectElement", startIndex |-> p, endIndex |-> p + 1,
            content |-> <<>>, inlineObjectId |-> flat[p],
            textStyle |-> NoTextStyle]>>
         \o parseElements(flat, p + 1, nl)
    ELSE LET q == nextPos(flat, p, nl, ImageIds)
         IN <<[kind |-> "textRun", startIndex |-> p, endIndex |-> q,
               content |-> SubSeq(flat, p, q - 1), inlineObjectId |-> "",
               textStyle |-> NoTextStyle]>>
            \o parseElements(flat, q, nl)

NoTable == [rows |-> 0, columns |-> 0, tableRows |-> <<>>]

parseParagraph(flat, s, nl) ==
    [kind |-> "paragraph", startIndex |-> s, endIndex |-> nl + 1,
     elements |-> parseElements(flat, s, nl), table |-> NoTable,
     namedStyleType |-> NORMAL_TEXT, bullet |-> ""]

\* The paragraphs that fill positions from..last.
RECURSIVE parseParagraphs(_, _, _)
parseParagraphs(flat, from, last) ==
    IF from > last THEN <<>>
    ELSE LET nl == nextPos(flat, from, last, {NL})
         IN IF nl > last THEN <<>>
            ELSE <<parseParagraph(flat, from, nl)>>
                 \o parseParagraphs(flat, nl + 1, last)

parseCell(flat, c, last) ==
    [startIndex |-> c, endIndex |-> last + 1,
     content |-> parseParagraphs(flat, c + 1, last)]

parseRow(flat, r, last) ==
    LET cs == sortedSeq({p \in (r + 1)..last : flat[p] = CellStart})
    IN [startIndex |-> r, endIndex |-> last + 1,
        tableCells |-> [k \in 1..Len(cs) |->
            parseCell(flat, cs[k], IF k < Len(cs) THEN cs[k + 1] - 1 ELSE last)]]

parseTable(flat, t, e) ==
    LET rs == sortedSeq({p \in (t + 1)..(e - 1) : flat[p] = RowStart})
        rows == [k \in 1..Len(rs) |->
            parseRow(flat, rs[k], IF k < Len(rs) THEN rs[k + 1] - 1 ELSE e - 1)]
    IN [rows |-> Len(rs),
        columns |-> IF Len(rs) = 0 THEN 0 ELSE Len(rows[1].tableCells),
        tableRows |-> rows]

RECURSIVE parseBody(_, _)
parseBody(flat, from) ==
    IF from > Len(flat) THEN <<>>
    ELSE IF flat[from] = TableStart
    THEN LET e == nextPos(flat, from, Len(flat), {TableEnd})
         IN <<[kind |-> "table", startIndex |-> from, endIndex |-> e + 1,
               elements |-> <<>>, table |-> parseTable(flat, from, e),
               namedStyleType |-> "", bullet |-> ""]>>
            \o parseBody(flat, e + 1)
    ELSE LET nl == nextPos(flat, from, Len(flat), {NL})
         IN <<parseParagraph(flat, from, nl)>> \o parseBody(flat, nl + 1)

SectionBreak == [kind |-> "sectionBreak", startIndex |-> 0, endIndex |-> 1,
                 elements |-> <<>>, table |-> NoTable,
                 namedStyleType |-> "", bullet |-> ""]

\* docs.documents.get(...).data.body.content
documentsGet(flat) == <<SectionBreak>> \o parseBody(flat, 1)

\* ------------------------------------------------------------------------
\* Remote write: batchUpdate applies its requests strictly in array order
\* ------------------------------------------------------------------------
\* The images whose URI the service can no longer fetch: a batchUpdate call
\* with an insertInlineImage of one of them is rejected as a whole.
VARIABLE expired

rejectsImage(requests) ==
    \E k \in 1..Len(requests) :
        requests[k].kind = "insertInlineImage" /\ requests[k].text[1] \in expired

DeleteContentRange(s, e) ==
    [kind |-> "deleteContentRange", startIndex |-> s, endIndex |-> e, text |-> <<>>]
InsertText(i, text) ==
    [kind |-> "insertText", startIndex |-> i, endIndex |-> i, text |-> text]

InsertInlineImage(i, uri) ==
    [kind |-> "insertInlineImage", startIndex |-> i, endIndex |-> i, text |-> <<uri>>]
InsertTable(i, rows, columns) ==
    [kind |-> "insertTable", startIndex |-> i, endIndex |-> i,
     text |-> <<>>, rows |-> rows, columns |-> columns]

UpdateTextStyle(s, e, marks, link) ==
    [kind |-> "updateTextStyle", startIndex |-> s, endIndex |-> e, text |-> <<>>,
     marks |-> marks, link |-> link]
UpdateParagraphStyle(s, e, namedStyleType) ==
    [kind |-> "updateParagraphStyle", startIndex |-> s, endIndex |-> e,
     text |-> <<>>, namedStyleType |-> namedStyleType]
CreateParagraphBullets(s, e, bulletPreset) ==
    [kind |-> "createParagraphBullets", startIndex |-> s, endIndex |-> e,
     text |-> <<>>, bulletPreset |-> bulletPreset]

\* The slots a table takes: one per table, row and cell start, the cells'
\* paragraphs, and one for the table's end.
cellTokens(paragraphs) ==
    <<CellStart>> \o flatten([k \in 1..Len(paragraphs) |-> paragraphs[k] \o <<NL>>])

rowTokens(cells) ==
    <<RowStart>> \o flatten([k \in 1..Len(cells) |-> cellTokens(cells[k])])

tableTokens(rows) ==
    <<TableStart>> \o flatten([k \in 1..Len(rows) |-> rowTokens(rows[k])])
    \o <<TableEnd>>

\* A new table is a grid of empty cells, with a newline inserted before it.
emptyTableTokens(rows, columns) ==
    <<NL>> \o tableTokens([r \in 1..rows |-> [c \in 1..columns |-> <<<<>>>>]])

StyleRequests == {"updateTextStyle", "updateParagraphStyle",
                  "createParagraphBullets"}

applyRequest(flat, req) ==
    IF req.kind \in StyleRequests THEN flat
    ELSE IF req.kind = "deleteContentRange"
    THEN SubSeq(flat, 1, req.startIndex - 1) \o SubSeq(flat, req.endIndex, Len(flat))
    ELSE SubSeq(flat, 1, req.startIndex - 1)
         \o (IF req.kind = "insertTable"
             THEN emptyTableTokens(req.rows, req.columns) ELSE req.text)
         \o SubSeq(flat, req.startIndex, Len(flat))

RECURSIVE executeBatchUpdate(_, _)
executeBatchUpdate(flat, requests) ==
    IF requests = <<>> THEN flat
    ELSE executeBatchUpdate(applyRequest(flat, Head(requests)), Tail(requests))

\* Contiguous slices of maxBatchSize requests, one batchUpdate call each.
RECURSIVE chunksOf(_, _)
chunksOf(requests, maxBatchSize) ==
    IF Len(requests) <= maxBatchSize
    THEN IF requests = <<>> THEN <<>> ELSE <<requests>>
    ELSE <<SubSeq(requests, 1, maxBatchSize)>>
         \o chunksOf(SubSeq(requests, maxBatchSize + 1, Len(requests)), maxBatchSize)

RECURSIVE executeChunks(_, _)
executeChunks(flat, chunks) ==
    IF chunks = <<>> THEN flat
    ELSE executeChunks(executeBatchUpdate(flat, Head(chunks)), Tail(chunks))

executeBatchUpdateChunked(flat, requests, maxBatchSize) ==
    [doc |-> executeChunks(flat, chunksOf(requests, maxBatchSize)),
     apiCalls |-> Len(chunksOf(requests, maxBatchSize))]

\* Request-count threshold passed by every caller of executeBatchUpdateChunked.
BATCH_CHUNK_SIZE == 50

\* ------------------------------------------------------------------------
\* The styles of the remote document
\* ------------------------------------------------------------------------
\* One entry per position of the flat document: the text style of the
\* character there and, at a paragraph's newline, the style and the list
\* preset of the paragraph.  Inserted content arrives unstyled: the
\* documents styled here carry no style where content is inserted.
DefaultStyle ==
    [marks |-> {}, link |-> "", namedStyleType |-> NORMAL_TEXT, bullet |-> ""]

plainStyles(flat) == [p \in 1..Len(flat) |-> DefaultStyle]

Remote(flat, styles) == [flat |-> flat, styles |-> styles]

\* The first position of the paragraph whose newline is at nl.
paragraphStartOf(flat, nl) ==
    LET S == {q \in 1..(nl - 1) : flat[q] \in {NL, CellStart, TableEnd}}
    IN IF S = {} THEN 1 ELSE (CHOOSE q \in S : \A j \in S : j <= q) + 1

\* The paragraph ending at nl has a character in [s, e).
paragraphInRange(flat, nl, s, e) ==
    flat[nl] = NL /\ nl >= s /\ paragraphStartOf(flat, nl) < e

restyle(flat, styles, req) ==
    CASE req.kind = "deleteContentRange" ->
            SubSeq(styles, 1, req.startIndex - 1)
            \o SubSeq(styles, req.endIndex, Len(styles))
      [] req.kind = "updateTextStyle" ->
            [p \in 1..Len(styles) |->
                IF p >= req.startIndex /\ p < req.endIndex
                THEN [styles[p] EXCEPT
                        !.marks = @ \cup req.marks,
                        !.link = IF req.link # "" THEN req.link ELSE @]
                ELSE styles[p]]
      [] req.kind = "updateParagraphStyle" ->
            [p \in 1..Len(styles) |->
                IF paragraphInRange(flat, p, req.startIndex, req.endIndex)
                THEN [styles[p] EXCEPT !.namedStyleType = req.namedStyleType]
                ELSE styles[p]]
      [] req.kind = "createParagraphBullets" ->
            [p \in 1..Len(styles) |->
                IF paragraphInRange(flat, p, req.startIndex, req.endIndex)
                THEN [styles[p] EXCEPT !.bullet = req.bulletPreset]
                ELSE styles[p]]
      [] OTHER ->
            SubSeq(styles, 1, req.startIndex - 1)
            \o [k \in 1..(Len(applyRequest(flat, req)) - Len(flat)) |-> DefaultStyle]
            \o SubSeq(styles, req.startIndex, Len(styles))

applyStyled(remote, req) ==
    Remote(applyRequest(remote.flat, req), restyle(remote.flat, remote.styles, req))

RECURSIVE executeStyledBatch(_, _)
executeStyledBatch(remote, requests) ==
    IF requests = <<>> THEN remote
    ELSE executeStyledBatch(applyStyled(remote, Head(requests)), Tail(requests))

textStyleAt(styles, p) == [marks |-> styles[p].marks, link |-> styles[p].link]

\* The text runs of positions p..e-1, one per stretch of equal text style.
RECURSIVE styledRuns(_, _, _, _)
styledRuns(flat, styles, p, e) ==
    IF p >= e THEN <<>>
    ELSE LET S == {q \in (p + 1)..(e - 1) :
                      textStyleAt(styles, q) # textStyleAt(styles, p)}
             q == IF S = {} THEN e ELSE Min(S)
         IN <<[kind |-> "textRun", startIndex |-> p, endIndex |-> q,
               content |-> SubSeq(flat, p, q - 1), inlineObjectId |-> "",
               textStyle |-> textStyleAt(styles, p)]>>
            \o styledRuns(flat, styles, q, e)

styledElements(flat, styles, elements) ==
    flatten([k \in 1..Len(elements) |->
        IF elements[k].kind = "textRun"
        THEN styledRuns(flat, styles, elements[k].startIndex, elements[k].endIndex)
        ELSE <<elements[k]>>])

styledParagraph(flat, styles, el) ==
    [el EXCEPT !.elements = styledElements(flat, styles, el.elements),
               !.namedStyleType = styles[el.endIndex - 1].namedStyleType,
               !.bullet = styles[el.endIndex - 1].bullet]

\* docs.documents.get(...).data.body.content of a styled document; the
\* paragraphs inside table cells are read as documentsGet reads them.
styledBody(flat, styles, body) ==
    [k \in 1..Len(body) |->
        IF body[k].kind = "paragraph"
        THEN styledParagraph(flat, styles, body[k])
        ELSE body[k]]

documentsGetStyled(flat, styles) == styledBody(flat, styles, documentsGet(flat))

\* ------------------------------------------------------------------------
\* tableHelpers.ts
\* ------------------------------------------------------------------------
extractTableElements(bodyContent) ==
    SelectSeq(bodyContent, LAMBDA el : el.kind = "table")

getTableElement(bodyContent, tableIndex) ==
    LET tables == extractTableElements(bodyContent)
    IN IF tableIndex < 0 \/ tableIndex >= Len(tables)
       THEN Throw(UserError("TableIndexOutOfRange", tableIndex, Len(tables), 0))
       ELSE Ok(tables[tableIndex + 1])

\* A mutant of getCellElement: the row index is clamped to the last row.
getCellElementClamped(table, row, col) ==
    LET tableRows == table.tableRows
        r == IF row >= Len(tableRows) THEN Len(tableRows) - 1 ELSE row
    IN IF r < 0
       THEN Throw(UserError("RowOutOfRange", row, Len(tableRows), row))
       ELSE LET tableCells == tableRows[r + 1].tableCells
            IN IF col < 0 \/ col >= Len(tableCells)
               THEN Throw(UserError("ColumnOutOfRange", col, Len(tableCells), row))
               ELSE Ok(tableCells[col + 1])

getCellElement(table, row, col) ==
    LET tableRows == table.tableRows
    IN IF row < 0 \/ row >= Len(tableRows)
       THEN Throw(UserError("RowOutOfRange", row, Len(tableRows), row))
       ELSE LET tableCells == tableRows[row + 1].tableCells
            IN IF col < 0 \/ col >= Len(tableCells)
               THEN Throw(UserError("ColumnOutOfRange", col, Len(tableCells), row))
               ELSE Ok(tableCells[col + 1])

cellHasImage(cell) ==
    \E p \in 1..Len(cell.content) :
        \E k \in 1..Len(cell.content[p].elements) :
            cell.content[p].elements[k].kind = "inlineObjectElement"

\* pe.textRun?.content && pe.textRun.content !== '\n'
isTextBearing(pe) ==
    pe.kind = "textRun" /\ pe.content # <<>> /\ pe.content # <<NL>>

\* A mutant of hasTextRun: an image-only paragraph counts as text-bearing.
hasAnyContent(contentEl) ==
    \E k \in 1..Len(contentEl.elements) :
        \/ isTextBearing(contentEl.elements[k])
        \/ contentEl.elements[k].kind = "inlineObjectElement"

hasTextRun(contentEl) ==
    \E k \in 1..Len(contentEl.elements) : isTextBearing(contentEl.elements[k])

getCellTextRanges(cell) ==
    LET qualifying == SelectSeq(cell.content, LAMBDA contentEl :
            /\ contentEl.kind = "paragraph"
            /\ hasTextRun(contentEl)
            /\ contentEl.endIndex - 1 > contentEl.startIndex)
    IN [k \in 1..Len(qualifying) |->
            [startIndex |-> qualifying[k].startIndex,
             endIndex |-> qualifying[k].endIndex - 1]]

getCellInsertionPoint(cell) ==
    IF Len(cell.content) = 0
    THEN Throw(UserError("CellHasNoContent", 0, 0, 0))
    ELSE Ok(cell.content[1].startIndex)

\* [...textRanges].sort((a, b) => b.startIndex - a.startIndex): a stable sort.
sortRangesDescending(textRanges) ==
    LET n == Len(textRanges)
        pos(i) == 1 + Cardinality({j \in 1..n :
                        textRanges[j].startIndex > textRanges[i].startIndex})
                    + Cardinality({j \in 1..(i - 1) :
                        textRanges[j].startIndex = textRanges[i].startIndex})
    IN [p \in 1..n |-> textRanges[CHOOSE i \in 1..n : pos(i) = p]]

\* textRanges.reduce((min, r) => Math.min(min, r.startIndex), Infinity)
lowestStartIndex(textRanges) ==
    Min({textRanges[k].startIndex : k \in 1..Len(textRanges)})

deleteRequests(sortedRanges) ==
    [k \in 1..Len(sortedRanges) |->
        DeleteContentRange(sortedRanges[k].startIndex, sortedRanges[k].endIndex)]

buildEditCellRequests(bodyContent, tableIndex, row, col, newText) ==
    LET tableEl == getTableElement(bodyContent, tableIndex)
    IN IF ~tableEl.ok THEN Throw(tableEl.error)
       ELSE LET cell == getCellElement(tableEl.value.table, row, col)
            IN IF ~cell.ok THEN Throw(cell.error)
               ELSE LET textRanges == getCellTextRanges(cell.value)
                    IN IF Len(textRanges) = 0
                       THEN LET insertPoint == getCellInsertionPoint(cell.value)
                            IN IF ~insertPoint.ok THEN Throw(insertPoint.error)
                               ELSE Ok(<<InsertText(insertPoint.value, newText)>>)
                       ELSE Ok(deleteRequests(sortRangesDescending(textRanges))
                               \o (IF newText # <<>>
                                   THEN <<InsertText(lowestStartIndex(textRanges), newText)>>
                                   ELSE <<>>))

\* One iteration of the loop of buildBatchEditCellRequests.
cellGroup(table, edit) ==
    LET cell == getCellElement(table, edit.row, edit.col)
    IN IF ~cell.ok THEN Throw(cell.error)
       ELSE LET textRanges == getCellTextRanges(cell.value)
            IN IF Len(textRanges) = 0
               THEN LET insertPoint == getCellInsertionPoint(cell.value)
                    IN IF ~insertPoint.ok THEN Throw(insertPoint.error)
                       ELSE Ok([sortIndex |-> insertPoint.value,
                                requests |-> IF edit.text # <<>>
                                    THEN <<InsertText(insertPoint.value, edit.text)>>
                                    ELSE <<>>])
               ELSE Ok([sortIndex |-> lowestStartIndex(textRanges),
                        requests |->
                            deleteRequests(sortRangesDescending(textRanges))
                            \o (IF edit.text # <<>>
                                THEN <<InsertText(lowestStartIndex(textRanges), edit.text)>>
                                ELSE <<>>)])

\* A mutant of sortGroupsDescending: the groups are sorted ascending.
sortGroupsAscending(cellGroups) ==
    LET n == Len(cellGroups)
        pos(i) == 1 + Cardinality({j \in 1..n :
                        cellGroups[j].sortIndex < cellGroups[i].sortIndex})
                    + Cardinality({j \in 1..(i - 1) :
                        cellGroups[j].sortIndex = cellGroups[i].sortIndex})
    IN [p \in 1..n |-> cellGroups[CHOOSE i \in 1..n : pos(i) = p]]

\* cellGroups.sort((a, b) => b.sortIndex - a.sortIndex): a stable sort.
sortGroupsDescending(cellGroups) ==
    LET n == Len(cellGroups)
        pos(i) == 1 + Cardinality({j \in 1..n :
                        cellGroups[j].sortIndex > cellGroups[i].sortIndex})
                    + Cardinality({j \in 1..(i - 1) :
                        cellGroups[j].sortIndex = cellGroups[i].sortIndex})
    IN [p \in 1..n |-> cellGroups[CHOOSE i \in 1..n : pos(i) = p]]

buildBatchEditCellRequests(bodyContent, tableIndex, edits) ==
    LET tableEl == getTableElement(bodyContent, tableIndex)
    IN IF ~tableEl.ok THEN Throw(tableEl.error)
       ELSE LET groups == [k \in 1..Len(edits) |->
                                cellGroup(tableEl.value.table, edits[k])]
                failed == {k \in 1..Len(edits) : ~groups[k].ok}
            IN IF failed # {} THEN Throw(groups[Min(failed)].error)
               ELSE LET cellGroups == [k \in 1..Len(edits) |-> groups[k].value]
                        sorted == sortGroupsDescending(cellGroups)
                    IN Ok(flatten([k \in 1..Len(sorted) |-> sorted[k].requests]))

\* requests.sort((a, b) => b.insertIndex - a.insertIndex): a stable sort.
sortInsertsDescending(requests) ==
    LET n == Len(requests)
        pos(i) == 1 + Cardinality({j \in 1..n :
                        requests[j].startIndex > requests[i].startIndex})
                    + Cardinality({j \in 1..(i - 1) :
                        requests[j].startIndex = requests[i].startIndex})
    IN [p \in 1..n |-> requests[CHOOSE i \in 1..n : pos(i) = p]]

\* One iteration of the loop of buildBatchInsertImageRequests.
imageRequest(table, img) ==
    LET cell == getCellElement(table, img.row, img.col)
    IN IF ~cell.ok THEN Throw(cell.error)
       ELSE LET insertPoint == getCellInsertionPoint(cell.value)
            IN IF ~insertPoint.ok THEN Throw(insertPoint.error)
               ELSE Ok(InsertInlineImage(insertPoint.value, img.imageUrl))

buildBatchInsertImageRequests(bodyContent, tableIndex, images) ==
    LET tableEl == getTableElement(bodyContent, tableIndex)
    IN IF ~tableEl.ok THEN Throw(tableEl.error)
       ELSE LET built == [k \in 1..Len(images) |->
                                imageRequest(tableEl.value.table, images[k])]
                failed == {k \in 1..Len(images) : ~built[k].ok}
            IN IF failed # {} THEN Throw(built[Min(failed)].error)
               ELSE Ok(sortInsertsDescending([k \in 1..Len(images) |-> built[k].value]))

getCellText(cell) ==
    LET text == flatten([p \in 1..Len(cell.content) |->
                    flatten([k \in 1..Len(cell.content[p].elements) |->
                        cell.content[p].elements[k].content])])
    IN \* text.replace(/\n$/, '')
       IF text # <<>> /\ text[Len(text)] = NL
       THEN SubSeq(text, 1, Len(text) - 1) ELSE text

getCellRange(cell) ==
    IF Len(cell.content) = 0
    THEN Throw(UserError("CellHasNoContent", 0, 0, 0))
    ELSE Ok([startIndex |-> cell.content[1].startIndex,
             endIndex |-> cell.content[Len(cell.content)].endIndex])

\* The values matrix of readTableCells.
tableValues(table) ==
    [r \in 1..Len(table.tableRows) |->
        [c \in 1..Len(table.tableRows[r].tableCells) |->
            getCellText(table.tableRows[r].tableCells[c])]]

tableHasEmptyCell(table) ==
    \E r \in 1..Len(table.tableRows) :
        \E c \in 1..Len(table.tableRows[r].tableCells) :
            ~getCellRange(table.tableRows[r].tableCells[c]).ok

readTableValues(tableEl) ==
    IF ~tableEl.ok THEN Throw(tableEl.error)
    ELSE IF tableHasEmptyCell(tableEl.value.table)
    THEN Throw(UserError("CellHasNoContent", 0, 0, 0))
    ELSE Ok(tableValues(tableEl.value.table))

readTableCells(bodyContent, tableIndex) ==
    readTableValues(getTableElement(bodyContent, tableIndex))

\* String.prototype.toLowerCase on the letters the model uses.
lowerOf(ch) ==
    IF ch = "A" THEN "a" ELSE IF ch = "B" THEN "b" ELSE IF ch = "X" THEN "x" ELSE ch

toLowerCase(text) == [k \in 1..Len(text) |-> lowerOf(text[k])]

normalizeText(t, caseSensitive) == IF caseSensitive THEN t ELSE toLowerCase(t)

\* String.prototype.includes
includes(text, needle) ==
    \E k \in 0..(Len(text) - Len(needle)) :
        SubSeq(text, k + 1, k + Len(needle)) = needle

\* The loop of findTableRows over the rows read; a row shorter than
\* searchColumn is passed over.
matchingRows(values, searchColumn, needle, caseSensitive) ==
    SelectSeq([r \in 1..Len(values) |-> [rowIndex |-> r - 1, values |-> values[r]]],
              LAMBDA row :
                  /\ searchColumn < Len(row.values)
                  /\ includes(normalizeText(row.values[searchColumn + 1],
                                            caseSensitive), needle))

findRowsIn(tableData, searchColumn, needle, caseSensitive) ==
    IF ~tableData.ok THEN Throw(tableData.error)
    ELSE Ok(matchingRows(tableData.value, searchColumn, needle, caseSensitive))

findTableRows(bodyContent, tableIndex, searchColumn, searchText, caseSensitive) ==
    findRowsIn(readTableCells(bodyContent, tableIndex), searchColumn,
               normalizeText(searchText, caseSensitive), caseSensitive)

InsertTableRow(tableStart, rowIndex) ==
    [kind |-> "insertTableRow", startIndex |-> tableStart, endIndex |-> tableStart,
     text |-> <<>>, rowIndex |-> rowIndex, columnIndex |-> 0, insertBelow |-> TRUE]

addRowBelow(tableEl, insertBelow) ==
    IF ~tableEl.ok THEN Throw(tableEl.error)
    ELSE IF insertBelow < 0 \/ insertBelow >= Len(tableEl.value.table.tableRows)
    THEN Throw(UserError("InsertBelowOutOfRange", insertBelow,
                         Len(tableEl.value.table.tableRows), insertBelow))
    ELSE Ok(<<InsertTableRow(tableEl.value.startIndex, insertBelow)>>)

buildAddTableRowRequest(bodyContent, tableIndex, insertBelow) ==
    addRowBelow(getTableElement(bodyContent, tableIndex), insertBelow)

UpdateTableCellStyle(tableStart, rowIndex, columnIndex, columnSpan, fields) ==
    [kind |-> "updateTableCellStyle", startIndex |-> tableStart,
     endIndex |-> tableStart, text |-> <<>>, rowIndex |-> rowIndex,
     columnIndex |-> columnIndex, rowSpan |-> 1, columnSpan |-> columnSpan,
     fields |-> fields]

\* An optional {startRow, rowSpan} or {startCol, colSpan} argument.
NoRange == [given |-> FALSE, start |-> 0, spanGiven |-> FALSE, span |-> 0]
RangeFrom(start) == [given |-> TRUE, start |-> start, spanGiven |-> FALSE, span |-> 0]
RangeOf(start, span) ==
    [given |-> TRUE, start |-> start, spanGiven |-> TRUE, span |-> span]

\* rowRange?.startRow ?? 0
rangeStart(range) == IF range.given THEN range.start ELSE 0

\* rowRange?.rowSpan ?? totalRows - startRow
rangeSpan(range, total) ==
    IF range.given /\ range.spanGiven THEN range.span ELSE total - rangeStart(range)

\* The loop of buildUpdateTableCellStyleRequests: one request per row.
cellStyleRequests(tableStartIndex, startRow, rowSpan, startCol, colSpan, fields) ==
    IF rowSpan <= 0 THEN <<>>
    ELSE [k \in 1..rowSpan |->
            UpdateTableCellStyle(tableStartIndex, startRow + k - 1, startCol, colSpan,
                                 fields)]

styleCells(tableEl, fields, rowRange, colRange) ==
    IF ~tableEl.ok THEN Throw(tableEl.error)
    ELSE IF fields = {} THEN Throw(UserError("NoStyleProperties", 0, 0, 0))
    ELSE Ok(cellStyleRequests(tableEl.value.startIndex,
                rangeStart(rowRange), rangeSpan(rowRange, tableEl.value.table.rows),
                rangeStart(colRange), rangeSpan(colRange, tableEl.value.table.columns),
                fields))

buildUpdateTableCellStyleRequests(bodyContent, tableIndex, fields, rowRange, colRange) ==
    styleCells(getTableElement(bodyContent, tableIndex), fields, rowRange, colRange)

\* The in-cell line break, \u000b.
VT == "\\u000b"

endsWithNewline(content) == content # <<>> /\ content[Len(content)] = NL

\* The TextStyleArgs a run is given: the flags that are set, and the link.
\* The colours, the font and its size are outside the model.  A run whose
\* style is NoTextStyle is a run without a style field.
extractTextStyle(ts) ==
    [marks |-> ts.marks \cap {"bold", "italic", "underline", "strikethrough"},
     link |-> ts.link]

FormattedRun(text, style) == [text |-> text, style |-> style]

\* The loop over one paragraph's elements in extractFormattedCellContent.
RECURSIVE extractCellElements(_, _, _, _, _)
extractCellElements(elements, k, isLastParagraph, inlineObjects, acc) ==
    IF k > Len(elements) THEN acc
    ELSE LET pe == elements[k]
         IN IF pe.kind = "inlineObjectElement"
            THEN extractCellElements(elements, k + 1, isLastParagraph, inlineObjects,
                    IF pe.inlineObjectId \in inlineObjects
                    THEN [acc EXCEPT !.imageInfo = Append(@, [uri |-> pe.inlineObjectId])]
                    ELSE acc)
            ELSE LET isLastElement == k = Len(elements)
                     content == IF isLastParagraph /\ isLastElement
                                   /\ endsWithNewline(pe.content)
                                THEN SubSeq(pe.content, 1, Len(pe.content) - 1)
                                ELSE pe.content
                 IN extractCellElements(elements, k + 1, isLastParagraph, inlineObjects,
                        IF Len(content) = 0 THEN acc
                        ELSE [acc EXCEPT !.runs = Append(@,
                                FormattedRun(content, extractTextStyle(pe.textStyle)))])

RECURSIVE extractCellParagraphs(_, _, _, _)
extractCellParagraphs(paragraphs, pIdx, inlineObjects, acc) ==
    IF pIdx > Len(paragraphs) THEN acc
    ELSE LET separated == IF pIdx > 1 /\ Len(acc.runs) > 0
                          THEN [acc EXCEPT !.runs =
                                    Append(@, FormattedRun(<<VT>>, NoTextStyle))]
                          ELSE acc
         IN extractCellParagraphs(paragraphs, pIdx + 1, inlineObjects,
                extractCellElements(paragraphs[pIdx].elements, 1,
                                    pIdx = Len(paragraphs), inlineObjects, separated))

extractFormattedCellContent(cell, inlineObjects) ==
    extractCellParagraphs(
        SelectSeq(cell.content, LAMBDA el : el.kind = "paragraph"), 1, inlineObjects,
        [runs |-> <<>>, imageInfo |-> <<>>])

\* The loop with a request for every run, styled or not, empty or not.
RECURSIVE runFormatRequestsAll(_, _, _)
runFormatRequestsAll(runs, k, offset) ==
    IF k > Len(runs) THEN <<>>
    ELSE <<UpdateTextStyle(offset, offset + Len(runs[k].text),
                           runs[k].style.marks, runs[k].style.link)>>
         \o runFormatRequestsAll(runs, k + 1, offset + Len(runs[k].text))

\* The loop of buildFormattedCellFormatRequests from run k on, at offset.
RECURSIVE runFormatRequests(_, _, _)
runFormatRequests(runs, k, offset) ==
    IF k > Len(runs) THEN <<>>
    ELSE (IF runs[k].style # NoTextStyle /\ Len(runs[k].text) > 0
          THEN <<UpdateTextStyle(offset, offset + Len(runs[k].text),
                                 runs[k].style.marks, runs[k].style.link)>>
          ELSE <<>>)
         \o runFormatRequests(runs, k + 1, offset + Len(runs[k].text))

buildFormattedCellFormatRequests(cellStartIndex, runs) ==
    runFormatRequests(runs, 1, cellStartIndex)

\* ------------------------------------------------------------------------
\* snapshotManager.ts
\* ------------------------------------------------------------------------
MAX_SNAPSHOTS == 10

\* doc.data.inlineObjects: the ids of the images the document holds.
inlineObjectsOf(flat) == {flat[p] : p \in {q \in 1..Len(flat) : flat[q] \in ImageIds}}

RECURSIVE extractParagraphElements(_, _, _, _)
extractParagraphElements(elements, k, inlineObjects, acc) ==
    IF k > Len(elements) THEN acc
    ELSE LET pe == elements[k]
         IN IF pe.kind = "inlineObjectElement"
            THEN extractParagraphElements(elements, k + 1, inlineObjects,
                    IF pe.inlineObjectId \in inlineObjects
                    THEN [acc EXCEPT !.imageInfo =
                            Append(@, [uri |-> pe.inlineObjectId,
                                       offset |-> acc.textOffset])]
                    ELSE acc)
            ELSE LET content == IF endsWithNewline(pe.content)
                                THEN SubSeq(pe.content, 1, Len(pe.content) - 1)
                                ELSE pe.content
                 IN extractParagraphElements(elements, k + 1, inlineObjects,
                        IF Len(content) = 0 THEN acc
                        ELSE [acc EXCEPT !.runs = Append(@,
                                FormattedRun(content, extractTextStyle(pe.textStyle))),
                                         !.textOffset = @ + Len(content)])

extractParagraphFormattedContent(paragraph, inlineObjects) ==
    LET r == extractParagraphElements(paragraph.elements, 1, inlineObjects,
                [runs |-> <<>>, imageInfo |-> <<>>, textOffset |-> 0])
    IN [runs |-> r.runs, imageInfo |-> r.imageInfo,
        namedStyle |-> paragraph.namedStyleType]

\* runs.map(r => r.text).join('')
runsText(runs) == flatten([k \in 1..Len(runs) |-> runs[k].text])

lastEndIndex(body) == body[Len(body)].endIndex

getInsertionPoint(flat) == lastEndIndex(documentsGet(flat)) - 1

\* allText.trim().length === 0
Whitespace == {" ", NL, VT}
trimIsEmpty(text) == \A k \in 1..Len(text) : text[k] \in Whitespace

\* The loop without the newline that ends each paragraph.
RECURSIVE paragraphStartsTight(_, _, _)
paragraphStartsTight(paraData, k, offset) ==
    IF k > Len(paraData) THEN <<>>
    ELSE <<offset>>
         \o paragraphStartsTight(paraData, k + 1,
                                 offset + Len(runsText(paraData[k].runs)))

\* The start offset the loop of restoreParagraphBatch gives each paragraph.
RECURSIVE paragraphStarts(_, _, _)
paragraphStarts(paraData, k, offset) ==
    IF k > Len(paraData) THEN <<>>
    ELSE <<offset>>
         \o paragraphStarts(paraData, k + 1,
                            offset + Len(runsText(paraData[k].runs)) + 1)

\* if (pd.namedStyle && pd.namedStyle !== 'NORMAL_TEXT') paraStyleRequests.push
paragraphStyleRequest(pd, paraStart) ==
    IF pd.namedStyle # "" /\ pd.namedStyle # NORMAL_TEXT
    THEN <<UpdateParagraphStyle(paraStart, paraStart + Len(runsText(pd.runs)) + 1,
                                pd.namedStyle)>>
    ELSE <<>>

paraStyleRequests(paraData, starts) ==
    flatten([k \in 1..Len(paraData) |-> paragraphStyleRequest(paraData[k], starts[k])])

formatRequests(paraData, starts) ==
    flatten([k \in 1..Len(paraData) |-> runFormatRequests(paraData[k].runs, 1, starts[k])])

\* [...insertRequests, ...paraStyleRequests, ...formatRequests]
allRequests(insertPoint, paraData, allText, starts) ==
    <<InsertText(insertPoint, allText)>>
    \o paraStyleRequests(paraData, starts)
    \o formatRequests(paraData, starts)

\* Phase 3 of restoreParagraphBatch: one batchUpdate call per image, highest
\* index first.
insertParagraphImages(inserted, sorted) ==
    [doc |-> executeBatchUpdate(inserted.doc,
                 SelectSeq(sorted, LAMBDA req : ~rejectsImage(<<req>>))),
     reads |-> 1, writes |-> inserted.apiCalls + Len(sorted), ok |-> TRUE]

paragraphImageInserts(paraData, starts) ==
    flatten([k \in 1..Len(paraData) |->
        [m \in 1..Len(paraData[k].imageInfo) |->
            InsertInlineImage(starts[k] + paraData[k].imageInfo[m].offset,
                              paraData[k].imageInfo[m].uri)]])

\* restoreParagraphBatch from the blank-text shortcut on.
insertParagraphText(flat, insertPoint, paraData, allText) ==
    IF trimIsEmpty(allText)
       /\ \A k \in 1..Len(paraData) : Len(paraData[k].imageInfo) = 0
    THEN IF Len(allText) > 0
         THEN [doc |-> executeBatchUpdate(flat, <<InsertText(insertPoint, allText)>>),
               reads |-> 1, writes |-> 1, ok |-> TRUE]
         ELSE [doc |-> flat, reads |-> 1, writes |-> 0, ok |-> TRUE]
    ELSE insertParagraphImages(
            executeBatchUpdateChunked(flat,
                allRequests(insertPoint, paraData, allText,
                            paragraphStarts(paraData, 1, insertPoint)),
                BATCH_CHUNK_SIZE),
            sortInsertsDescending(
                paragraphImageInserts(paraData,
                                      paragraphStarts(paraData, 1, insertPoint))))

insertParagraphs(flat, insertPoint, paraData) ==
    insertParagraphText(flat, insertPoint, paraData,
        flatten([k \in 1..Len(paraData) |-> runsText(paraData[k].runs) \o <<NL>>]))

restoreParagraphBatch(flat, paragraphElements, inlineObjects) ==
    insertParagraphs(flat, getInsertionPoint(flat),
        [k \in 1..Len(paragraphElements) |->
            extractParagraphFormattedContent(paragraphElements[k], inlineObjects)])

\* Step B of restoreTable: the cells of the source table that hold something.
tableCellData(tableRows, inlineObjects) ==
    SelectSeq(
        flatten([r \in 1..Len(tableRows) |->
            [c \in 1..Len(tableRows[r].tableCells) |->
                [row |-> r - 1, col |-> c - 1,
                 content |-> extractFormattedCellContent(tableRows[r].tableCells[c],
                                                         inlineObjects)]]]),
        LAMBDA cd : Len(cd.content.runs) > 0 \/ Len(cd.content.imageInfo) > 0)

tableTextEdits(textCells) ==
    [k \in 1..Len(textCells) |->
        [row |-> textCells[k].row, col |-> textCells[k].col,
         text |-> runsText(textCells[k].content.runs)]]

tableImageInserts(cellsWithImages) ==
    flatten([k \in 1..Len(cellsWithImages) |->
        [m \in 1..Len(cellsWithImages[k].content.imageInfo) |->
            [row |-> cellsWithImages[k].row, col |-> cellsWithImages[k].col,
             imageUrl |-> cellsWithImages[k].content.imageInfo[m].uri]]])

\* The outcome of a restore step that ends with a chunked execution.
afterChunks(done, reads, writesBefore) ==
    [doc |-> done.doc, reads |-> reads, writes |-> writesBefore + done.apiCalls,
     ok |-> TRUE]

\* The format requests of one cell of Step D.
cellFormatAt(cd, cellStart) ==
    IF ~cellStart.ok THEN Throw(cellStart.error)
    ELSE Ok(buildFormattedCellFormatRequests(cellStart.value, cd.content.runs))

cellFormat(cd, targetCell) ==
    IF ~targetCell.ok THEN Throw(targetCell.error)
    ELSE cellFormatAt(cd, getCellInsertionPoint(targetCell.value))

collectRequests(built) ==
    IF \E k \in 1..Len(built) : ~built[k].ok
    THEN Throw(built[Min({k \in 1..Len(built) : ~built[k].ok})].error)
    ELSE Ok(flatten([k \in 1..Len(built) |-> built[k].value]))

tableFormatRequests(targetTable, cellsWithFormatting) ==
    collectRequests([k \in 1..Len(cellsWithFormatting) |->
        cellFormat(cellsWithFormatting[k],
                   getCellElement(targetTable, cellsWithFormatting[k].row,
                                  cellsWithFormatting[k].col))])

executeTableFormat(filled, requests) ==
    IF ~requests.ok
    THEN [doc |-> filled.doc, reads |-> filled.reads + 1, writes |-> filled.writes,
          ok |-> FALSE]
    ELSE afterChunks(executeBatchUpdateChunked(filled.doc, requests.value,
                                               BATCH_CHUNK_SIZE),
                     filled.reads + 1, filled.writes)

\* Step D of restoreTable.
formatTableCells(filled, tables2, newTableIndex, cellsWithFormatting) ==
    IF ~filled.ok \/ Len(cellsWithFormatting) = 0 THEN filled
    ELSE IF newTableIndex < 0 \/ newTableIndex >= Len(tables2)
    THEN [filled EXCEPT !.reads = @ + 1]
    ELSE executeTableFormat(filled,
            tableFormatRequests(tables2[newTableIndex + 1].table, cellsWithFormatting))

\* Step E of restoreTable, once the image requests are built.
executeTableImages(filled, imageRequests) ==
    IF ~imageRequests.ok
    THEN [doc |-> filled.doc, reads |-> filled.reads + 1, writes |-> filled.writes,
          ok |-> FALSE]
    ELSE IF rejectsImage(imageRequests.value)
    THEN [doc |-> filled.doc, reads |-> filled.reads + 1,
          writes |-> filled.writes + 1, ok |-> FALSE]
    ELSE afterChunks(executeBatchUpdateChunked(filled.doc, imageRequests.value,
                                               BATCH_CHUNK_SIZE),
                     filled.reads + 1, filled.writes)

\* Step E of restoreTable.
insertTableImages(filled, newTableIndex, imageInserts) ==
    IF ~filled.ok \/ Len(imageInserts) = 0 THEN filled
    ELSE executeTableImages(filled,
            buildBatchInsertImageRequests(documentsGet(filled.doc), newTableIndex,
                                          imageInserts))

\* Step C of restoreTable, once the text requests are built.
executeTableText(withTable, textRequests) ==
    IF ~textRequests.ok
    THEN [doc |-> withTable, reads |-> 2, writes |-> 1, ok |-> FALSE]
    ELSE afterChunks(executeBatchUpdateChunked(withTable, textRequests.value,
                                               BATCH_CHUNK_SIZE),
                     2, 1)

styledCells(textFilled, newTableIndex, cellsWithFormatting) ==
    formatTableCells(textFilled, extractTableElements(documentsGet(textFilled.doc)),
                     newTableIndex, cellsWithFormatting)

\* Steps C, D and E of restoreTable.
fillRestoredTable(withTable, newTableIndex, textEdits, styled, imageInserts) ==
    insertTableImages(
        styledCells(
            executeTableText(withTable,
                IF Len(textEdits) > 0
                THEN buildBatchEditCellRequests(documentsGet(withTable), newTableIndex,
                                                textEdits)
                ELSE Ok(<<>>)),
            newTableIndex, styled),
        newTableIndex, imageInserts)

\* cd.runs.some(r => r.style)
hasStyledRun(runs) == \E k \in 1..Len(runs) : runs[k].style # NoTextStyle

fillTableCells(withTable, cellData) ==
    IF Len(cellData) = 0
    THEN [doc |-> withTable, reads |-> 1, writes |-> 1, ok |-> TRUE]
    ELSE fillRestoredTable(withTable,
            Len(extractTableElements(documentsGet(withTable))) - 1,
            tableTextEdits(SelectSeq(cellData, LAMBDA cd : Len(cd.content.runs) > 0)),
            SelectSeq(cellData, LAMBDA cd : hasStyledRun(cd.content.runs)),
            tableImageInserts(
                SelectSeq(cellData, LAMBDA cd : Len(cd.content.imageInfo) > 0)))

restoreTable(flat, table, inlineObjects) ==
    IF Len(table.tableRows) = 0 \/ table.columns = 0
    THEN [doc |-> flat, reads |-> 0, writes |-> 0, ok |-> TRUE]
    ELSE fillTableCells(
            executeBatchUpdate(flat,
                <<InsertTable(getInsertionPoint(flat), Len(table.tableRows),
                              table.columns)>>),
            tableCellData(table.tableRows, inlineObjects))

\* Step 2 of restoreDocumentContent: maximal paragraph runs and single tables.
flushParaGroup(elementGroups, currentParaGroup) ==
    IF currentParaGroup = <<>> THEN elementGroups
    ELSE Append(elementGroups,
                [type |-> "paragraphs", elements |-> currentParaGroup,
                 table |-> NoTable])

\* The grouping with a section break ending the paragraph run it is in.
RECURSIVE groupElementsBreaking(_, _, _, _)
groupElementsBreaking(body, k, elementGroups, currentParaGroup) ==
    IF k > Len(body) THEN flushParaGroup(elementGroups, currentParaGroup)
    ELSE IF body[k].kind = "paragraph"
    THEN groupElementsBreaking(body, k + 1, elementGroups,
                               Append(currentParaGroup, body[k]))
    ELSE groupElementsBreaking(body, k + 1,
            IF body[k].kind = "table"
            THEN Append(flushParaGroup(elementGroups, currentParaGroup),
                        [type |-> "table", elements |-> <<>>, table |-> body[k].table])
            ELSE flushParaGroup(elementGroups, currentParaGroup),
            <<>>)

RECURSIVE groupElements(_, _, _, _)
groupElements(body, k, elementGroups, currentParaGroup) ==
    IF k > Len(body) THEN flushParaGroup(elementGroups, currentParaGroup)
    ELSE IF body[k].kind = "sectionBreak"
    THEN groupElements(body, k + 1, elementGroups, currentParaGroup)
    ELSE IF body[k].kind = "paragraph"
    THEN groupElements(body, k + 1, elementGroups, Append(currentParaGroup, body[k]))
    ELSE groupElements(body, k + 1,
            Append(flushParaGroup(elementGroups, currentParaGroup),
                   [type |-> "table", elements |-> <<>>, table |-> body[k].table]),
            <<>>)

restoreGroup(flat, group, inlineObjects) ==
    IF group.type = "paragraphs"
    THEN restoreParagraphBatch(flat, group.elements, inlineObjects)
    ELSE restoreTable(flat, group.table, inlineObjects)

addCalls(acc, step) ==
    [doc |-> step.doc, reads |-> acc.reads + step.reads,
     writes |-> acc.writes + step.writes, ok |-> step.ok]

\* Step 3 of restoreDocumentContent.
RECURSIVE restoreGroups(_, _, _, _)
restoreGroups(elementGroups, k, inlineObjects, acc) ==
    IF k > Len(elementGroups) \/ ~acc.ok THEN acc
    ELSE restoreGroups(elementGroups, k + 1, inlineObjects,
            addCalls(acc, restoreGroup(acc.doc, elementGroups[k], inlineObjects)))

\* Step 1 of restoreDocumentContent.
clearDocument(flat, endIndex) ==
    IF endIndex > 2
    THEN [doc |-> executeBatchUpdate(flat, <<DeleteContentRange(1, endIndex - 1)>>),
          reads |-> 1, writes |-> 1, ok |-> TRUE]
    ELSE [doc |-> flat, reads |-> 1, writes |-> 0, ok |-> TRUE]

restoreDocumentContent(flat, snapshot) ==
    restoreGroups(groupElements(snapshot.body, 1, <<>>, <<>>), 1,
                  snapshot.inlineObjects,
                  clearDocument(flat, lastEndIndex(documentsGet(flat))))

\* The DocumentSnapshot that createSnapshot, undoLastChange and redoLastChange
\* build from a read of the live document.
captureSnapshot(flat, id, label) ==
    [id |-> id, timestamp |-> id, label |-> label,
     body |-> documentsGet(flat), inlineObjects |-> inlineObjectsOf(flat)]

NoSnapshot == [id |-> 0, timestamp |-> 0, label |-> "", body |-> <<>>,
               inlineObjects |-> {}]

\* A mutant of enforceMaxSnapshots: the newest entries are dropped.
enforceByDroppingNewest(stack) ==
    IF Len(stack) > MAX_SNAPSHOTS THEN SubSeq(stack, 1, MAX_SNAPSHOTS) ELSE stack

\* A mutant of enforceMaxSnapshots: one entry too many is kept.
RECURSIVE enforceOneTooMany(_)
enforceOneTooMany(stack) ==
    IF Len(stack) > MAX_SNAPSHOTS + 1 THEN enforceOneTooMany(Tail(stack)) ELSE stack

\* while (stack.undoStack.length > MAX_SNAPSHOTS) stack.undoStack.shift()
RECURSIVE enforceMaxSnapshots(_)
enforceMaxSnapshots(stack) ==
    IF Len(stack) > MAX_SNAPSHOTS THEN enforceMaxSnapshots(Tail(stack)) ELSE stack

\* A mutant of newChangeBranch: the redo history survives a new snapshot.
keepRedoStack(stack) == stack

\* stack.redoStack = []
newChangeBranch(stack) == <<>>

\* A mutant of pop: the oldest entry is taken.
popOldest(stack) == [snapshot |-> Head(stack), rest |-> Tail(stack)]

\* A pop that is undone: the entry is read and left on the stack.
popRolledBack(stack) == [snapshot |-> stack[Len(stack)], rest |-> stack]

\* stack.pop()
pop(stack) ==
    [snapshot |-> stack[Len(stack)], rest |-> SubSeq(stack, 1, Len(stack) - 1)]

\* A mutant of emptyHistory: the document is read before the stack is checked.
emptyHistoryAfterRead(op) ==
    [op |-> op, status |-> "EmptyHistory", snapshot |-> NoSnapshot,
     reads |-> 1, writes |-> 0]

\* throw new UserError('No snapshots available to undo...' / 'No redo states...')
emptyHistory(op) ==
    [op |-> op, status |-> "EmptyHistory", snapshot |-> NoSnapshot,
     reads |-> 0, writes |-> 0]

listSnapshots(undo, redo) ==
    [k \in 1..Len(undo) |-> [id |-> undo[k].id, label |-> undo[k].label,
                             timestamp |-> undo[k].timestamp, stack |-> "undo"]]
    \o [k \in 1..Len(redo) |-> [id |-> redo[k].id, label |-> redo[k].label,
                                timestamp |-> redo[k].timestamp, stack |-> "redo"]]

\* ------------------------------------------------------------------------
\* Markdown text and its tokens (markdownParser.ts: markdown-it)
\* ------------------------------------------------------------------------
\* A markdown text is its sequence of lines.  A line is blank, a heading,
\* a paragraph line, a list item, a table row or a table delimiter row; its
\* inline content is a sequence of spans, each a run of characters under
\* one set of marks and one link target ("" for none).
Span(text, marks, href) == [text |-> text, marks |-> marks, href |-> href]
Plain(text) == Span(text, {}, "")

Line(kind, level, spans, cells) ==
    [kind |-> kind, level |-> level, spans |-> spans, cells |-> cells]
Blank == Line("blank", 0, <<>>, <<>>)
HeadingLine(level, spans) == Line("heading", level, spans, <<>>)
TextLine(spans) == Line("text", 0, spans, <<>>)
BulletLine(spans) == Line("bullet", 0, spans, <<>>)
OrderedLine(spans) == Line("ordered", 0, spans, <<>>)
\* A list line indented under the item before it.
Nested(line) == [line EXCEPT !.level = 1]
RowLine(cells) == Line("row", 0, <<>>, cells)
DelimiterLine(columns) == Line("delimiter", columns, <<>>, <<>>)

Token(type, level, content, children, map, href) ==
    [type |-> type, level |-> level, content |-> content,
     children |-> children, map |-> map, href |-> href]
Tag(type) == Token(type, 0, <<>>, <<>>, <<0, 0>>, "")
BlockOpen(type, level, first, next) ==
    Token(type, level, <<>>, <<>>, <<first, next>>, "")
TextToken(content) == Token("text", 0, content, <<>>, <<0, 0>>, "")
Inline(children) == Token("inline", 0, <<>>, children, <<0, 0>>, "")

\* The tokens of one span: link outermost, then emphasis, strong, strike.
markOpens(span) ==
    (IF span.href # "" THEN <<Token("link_open", 0, <<>>, <<>>, <<0, 0>>, span.href)>>
     ELSE <<>>)
    \o (IF "italic" \in span.marks THEN <<Tag("em_open")>> ELSE <<>>)
    \o (IF "bold" \in span.marks THEN <<Tag("strong_open")>> ELSE <<>>)
    \o (IF "strikethrough" \in span.marks THEN <<Tag("s_open")>> ELSE <<>>)

markCloses(span) ==
    (IF "strikethrough" \in span.marks THEN <<Tag("s_close")>> ELSE <<>>)
    \o (IF "bold" \in span.marks THEN <<Tag("strong_close")>> ELSE <<>>)
    \o (IF "italic" \in span.marks THEN <<Tag("em_close")>> ELSE <<>>)
    \o (IF span.href # "" THEN <<Tag("link_close")>> ELSE <<>>)

spanTokens(span) ==
    markOpens(span) \o <<TextToken(span.text)>> \o markCloses(span)

inlineChildren(spans) ==
    flatten([k \in 1..Len(spans) |-> spanTokens(spans[k])])

\* The last line of the run of lines of one kind that starts at line k.
RECURSIVE runEnd(_, _, _)
runEnd(lines, k, kind) ==
    IF k < Len(lines) /\ lines[k + 1].kind = kind
    THEN runEnd(lines, k + 1, kind) ELSE k

\* Consecutive paragraph lines are one paragraph, joined by soft breaks.
RECURSIVE paragraphChildren(_, _, _)
paragraphChildren(lines, k, e) ==
    inlineChildren(lines[k].spans)
    \o (IF k < e
        THEN <<Tag("softbreak")>> \o paragraphChildren(lines, k + 1, e)
        ELSE <<>>)

paragraphTokens(lines, k, e) ==
    <<BlockOpen("paragraph_open", 0, k - 1, e),
      Inline(paragraphChildren(lines, k, e)),
      Tag("paragraph_close")>>

headingTokens(lines, k) ==
    <<BlockOpen("heading_open", lines[k].level, k - 1, k),
      Inline(inlineChildren(lines[k].spans)),
      Tag("heading_close")>>

\* The last of the indented list lines that follow line k, k when none does:
\* the lines of the list nested in the item of line k.
RECURSIVE nestedEnd(_, _, _)
nestedEnd(lines, k, e) ==
    IF k < e /\ lines[k + 1].level > 0 THEN nestedEnd(lines, k + 1, e) ELSE k

\* The item of line k; the indented lines k+1..e after it are the items of a
\* list inside the item, opened after the item's paragraph.
listItemTokens(lines, k, e, type) ==
    <<BlockOpen("list_item_open", 0, k - 1, e)>>
    \o paragraphTokens(lines, k, k)
    \o (IF e > k
        THEN <<BlockOpen(type \o "_list_open", 0, k, e)>>
             \o flatten([i \in 1..(e - k) |->
                    <<BlockOpen("list_item_open", 0, k + i - 1, k + i)>>
                    \o paragraphTokens(lines, k + i, k + i)
                    \o <<Tag("list_item_close")>>])
             \o <<Tag(type \o "_list_close")>>
        ELSE <<>>)
    \o <<Tag("list_item_close")>>

RECURSIVE listItemsFrom(_, _, _, _)
listItemsFrom(lines, k, e, type) ==
    IF k > e THEN <<>>
    ELSE listItemTokens(lines, k, nestedEnd(lines, k, e), type)
         \o listItemsFrom(lines, nestedEnd(lines, k, e) + 1, e, type)

listTokens(lines, k, e, type) ==
    <<BlockOpen(type \o "_list_open", 0, k - 1, e)>>
    \o listItemsFrom(lines, k, e, type)
    \o <<Tag(type \o "_list_close")>>

\* A cell the row does not have is parsed as an empty cell.
cellTokensOf(cells, c, type) ==
    <<Tag(type \o "_open"),
      Inline(IF c <= Len(cells) /\ cells[c] # <<>>
             THEN <<TextToken(cells[c])>> ELSE <<>>),
      Tag(type \o "_close")>>

rowTokensOf(cells, columns, type) ==
    <<Tag("tr_open")>>
    \o flatten([c \in 1..columns |-> cellTokensOf(cells, c, type)])
    \o <<Tag("tr_close")>>

\* The table whose header row is line k and whose last row is line e.
tableTokensOf(lines, k, e) ==
    <<BlockOpen("table_open", 0, k - 1, e),
      Tag("thead_open")>>
    \o rowTokensOf(lines[k].cells, lines[k + 1].level, "th")
    \o <<Tag("thead_close")>>
    \o (IF e > k + 1
        THEN <<Tag("tbody_open")>>
             \o flatten([i \in 1..(e - k - 1) |->
                    rowTokensOf(lines[k + 1 + i].cells, lines[k + 1].level, "td")])
             \o <<Tag("tbody_close")>>
        ELSE <<>>)
    \o <<Tag("table_close")>>

\* A row opens a table when a delimiter row of as many columns follows it.
opensTable(lines, k) ==
    /\ lines[k].kind = "row"
    /\ k < Len(lines)
    /\ lines[k + 1].kind = "delimiter"
    /\ lines[k + 1].level = Len(lines[k].cells)

\* The characters of a row that opens no table.
rowSource(cells) ==
    <<"|">> \o flatten([c \in 1..Len(cells) |-> cells[c] \o <<"|">>])

literalLine(line) ==
    TextLine(<<Plain(IF line.kind = "row" THEN rowSource(line.cells)
                     ELSE <<"|", "-", "|">>)>>)

RECURSIVE parseBlocks(_, _)
parseBlocks(lines, k) ==
    IF k > Len(lines) THEN <<>>
    ELSE IF lines[k].kind = "blank" THEN parseBlocks(lines, k + 1)
    ELSE IF lines[k].kind = "heading"
    THEN headingTokens(lines, k) \o parseBlocks(lines, k + 1)
    ELSE IF lines[k].kind = "text"
    THEN paragraphTokens(lines, k, runEnd(lines, k, "text"))
         \o parseBlocks(lines, runEnd(lines, k, "text") + 1)
    ELSE IF lines[k].kind \in {"bullet", "ordered"}
    THEN listTokens(lines, k, runEnd(lines, k, lines[k].kind), lines[k].kind)
         \o parseBlocks(lines, runEnd(lines, k, lines[k].kind) + 1)
    ELSE IF opensTable(lines, k)
    THEN tableTokensOf(lines, k, runEnd(lines, k + 1, "row"))
         \o parseBlocks(lines, runEnd(lines, k + 1, "row") + 1)
    ELSE paragraphTokens(<<literalLine(lines[k])>>, 1, 1)
         \o parseBlocks(lines, k + 1)

\* parseMarkdown(markdown).tokens
parseMarkdown(markdown) == parseBlocks(markdown, 1)

\* ------------------------------------------------------------------------
\* markdownToGoogleDocs.ts (listed in skills/AGENT_SKILL.md)
\* ------------------------------------------------------------------------
\* context.tableState; open is FALSE where the code holds undefined.
NoTableState ==
    [open |-> FALSE, insertIndex |-> 0, columns |-> 0, cells |-> <<>>,
     headerCells |-> <<>>, currentRow |-> <<>>, inHead |-> FALSE,
     inBody |-> FALSE, currentCellText |-> <<>>, sourceMap |-> <<0, 0>>]

\* The ConversionContext of one call.  -1 stands for undefined/null; the
\* list ids, which no request carries, are left out.
newContext(startIndex) ==
    [currentIndex |-> startIndex, insertRequests |-> <<>>,
     formatRequests |-> <<>>, textRanges |-> <<>>, formattingStack |-> <<>>,
     listStack |-> <<>>, paragraphRanges |-> <<>>, pendingListItems |-> <<>>,
     tableState |-> NoTableState, pendingTableFills |-> <<>>,
     stopAfterTable |-> FALSE, lastTableEndLine |-> -1,
     currentHeadingLevel |-> 0, currentParagraphStart |-> -1, error |-> ""]

insertText(text, context) ==
    [context EXCEPT
        !.insertRequests = Append(@, InsertText(context.currentIndex, text)),
        !.currentIndex = @ + Len(text)]

FormattingState(type, link) == [type |-> type, link |-> link]

lastLink(stack) ==
    LET S == {k \in 1..Len(stack) : stack[k].type = "link"}
    IN IF S = {} THEN "" ELSE stack[CHOOSE k \in S : \A j \in S : j <= k].link

mergeFormattingStack(stack) ==
    [marks |-> {stack[k].type : k \in 1..Len(stack)} \ {"link"},
     link |-> lastLink(stack)]

hasFormatting(formatting) == formatting.marks # {} \/ formatting.link # ""

removeAt(s, i) == SubSeq(s, 1, i - 1) \o SubSeq(s, i + 1, Len(s))

popFormatting(context, type) ==
    LET S == {k \in 1..Len(context.formattingStack) :
                 context.formattingStack[k].type = type}
    IN IF S = {} THEN context
       ELSE [context EXCEPT !.formattingStack =
                removeAt(@, CHOOSE k \in S : \A j \in S : j <= k)]

pushFormatting(context, state) ==
    [context EXCEPT !.formattingStack = Append(@, state)]

recordTextRange(context, startIndex, endIndex, formatting) ==
    IF hasFormatting(formatting)
    THEN [context EXCEPT !.textRanges =
            Append(@, [startIndex |-> startIndex, endIndex |-> endIndex,
                       formatting |-> formatting])]
    ELSE context

handleTextToken(token, context) ==
    IF token.content = <<>> THEN context
    ELSE IF context.tableState.open
    THEN [context EXCEPT !.tableState.currentCellText = @ \o token.content]
    ELSE recordTextRange(insertText(token.content, context),
                         context.currentIndex,
                         context.currentIndex + Len(token.content),
                         mergeFormattingStack(context.formattingStack))

handleHeadingOpen(token, context) ==
    IF token.level > 0
    THEN [context EXCEPT !.currentHeadingLevel = token.level,
                         !.currentParagraphStart = context.currentIndex]
    ELSE context

HeadingStyle(level) ==
    CASE level = 1 -> "HEADING_1" [] level = 2 -> "HEADING_2"
      [] level = 3 -> "HEADING_3" [] level = 4 -> "HEADING_4"
      [] level = 5 -> "HEADING_5" [] OTHER -> "HEADING_6"

handleHeadingClose(context) ==
    IF context.currentHeadingLevel > 0 /\ context.currentParagraphStart # -1
    THEN [insertText(<<NL>>,
            [context EXCEPT !.paragraphRanges =
                Append(@, [startIndex |-> context.currentParagraphStart,
                           endIndex |-> context.currentIndex,
                           namedStyleType |->
                               HeadingStyle(context.currentHeadingLevel)])])
          EXCEPT !.currentHeadingLevel = 0, !.currentParagraphStart = -1]
    ELSE context

handleParagraphOpen(context) ==
    IF context.listStack = <<>> /\ ~context.tableState.open
    THEN [context EXCEPT !.currentParagraphStart = context.currentIndex]
    ELSE context

handleParagraphClose(context) ==
    IF context.listStack = <<>> /\ ~context.tableState.open
    THEN [insertText(<<NL, NL>>, context) EXCEPT !.currentParagraphStart = -1]
    ELSE context

pushList(context, type) ==
    [context EXCEPT !.listStack =
        Append(@, [type |-> type, level |-> Len(context.listStack)])]

popList(context) ==
    [context EXCEPT !.listStack =
        IF @ = <<>> THEN <<>> ELSE SubSeq(@, 1, Len(@) - 1)]

handleListItemOpen(context) ==
    IF context.listStack = <<>>
    THEN [context EXCEPT !.error = "List item found outside of list context"]
    ELSE [context EXCEPT !.pendingListItems =
            Append(@, [startIndex |-> context.currentIndex, endIndex |-> -1,
                       nestingLevel |-> context.listStack[Len(context.listStack)].level,
                       isOrdered |->
                           context.listStack[Len(context.listStack)].type = "ordered"])]

handleListItemClose(context) ==
    IF context.pendingListItems # <<>>
    THEN insertText(<<NL>>,
            [context EXCEPT !.pendingListItems[Len(context.pendingListItems)].endIndex =
                context.currentIndex])
    ELSE context

handleTableOpen(token, context) ==
    [context EXCEPT !.tableState =
        [NoTableState EXCEPT !.open = TRUE,
                             !.insertIndex = context.currentIndex,
                             !.sourceMap = token.map]]

handleTableCellClose(context) ==
    IF ~context.tableState.open THEN context
    ELSE [context EXCEPT
            !.tableState.currentRow = Append(@, context.tableState.currentCellText),
            !.tableState.currentCellText = <<>>]

maxOf(a, b) == IF a >= b THEN a ELSE b

handleTableRowClose(context) ==
    IF ~context.tableState.open THEN context
    ELSE IF context.tableState.inHead
    THEN [context EXCEPT
            !.tableState.headerCells = context.tableState.currentRow,
            !.tableState.columns = maxOf(@, Len(context.tableState.currentRow)),
            !.tableState.currentRow = <<>>]
    ELSE [context EXCEPT
            !.tableState.cells = Append(@, context.tableState.currentRow),
            !.tableState.columns = maxOf(@, Len(context.tableState.currentRow)),
            !.tableState.currentRow = <<>>]

\* while (row.length < totalColumns) row.push('')
padRow(row, totalColumns) ==
    row \o [k \in 1..(totalColumns - Len(row)) |-> <<>>]

allDataOf(ts) ==
    (IF ts.headerCells # <<>> THEN <<ts.headerCells>> ELSE <<>>) \o ts.cells

PendingTableFill(ts, allData) ==
    [insertIndex |-> ts.insertIndex,
     data |-> [r \in 1..Len(allData) |-> padRow(allData[r], ts.columns)],
     rows |-> Len(allData), columns |-> ts.columns,
     hasBoldHeaders |-> ts.headerCells # <<>>]

\* A mutant of closeTable: the tokens after the table go on being processed.
closeTableAndGoOn(context, ts, allData) ==
    [context EXCEPT
        !.insertRequests =
            Append(@, InsertTable(ts.insertIndex, Len(allData), ts.columns)),
        !.pendingTableFills = Append(@, PendingTableFill(ts, allData)),
        !.lastTableEndLine = ts.sourceMap[2],
        !.tableState = NoTableState]

closeTable(context, ts, allData) ==
    [context EXCEPT
        !.insertRequests =
            Append(@, InsertTable(ts.insertIndex, Len(allData), ts.columns)),
        !.pendingTableFills = Append(@, PendingTableFill(ts, allData)),
        !.lastTableEndLine = ts.sourceMap[2],
        !.stopAfterTable = TRUE,
        !.tableState = NoTableState]

handleTableClose(context) ==
    IF ~context.tableState.open THEN context
    ELSE IF allDataOf(context.tableState) = <<>> \/ context.tableState.columns = 0
    THEN [context EXCEPT !.tableState = NoTableState]
    ELSE closeTable(context, context.tableState, allDataOf(context.tableState))

inTable(context, field, value) ==
    IF context.tableState.open
    THEN [context EXCEPT !.tableState = [@ EXCEPT ![field] = value]]
    ELSE context

RECURSIVE processToken(_, _)
RECURSIVE processChildren(_, _, _)
processChildren(children, k, context) ==
    IF k > Len(children) THEN context
    ELSE processChildren(children, k + 1, processToken(children[k], context))

processToken(token, context) ==
    CASE token.type = "heading_open" -> handleHeadingOpen(token, context)
      [] token.type = "heading_close" -> handleHeadingClose(context)
      [] token.type = "paragraph_open" -> handleParagraphOpen(context)
      [] token.type = "paragraph_close" -> handleParagraphClose(context)
      [] token.type \in {"text", "code_inline"} -> handleTextToken(token, context)
      [] token.type = "strong_open" ->
            pushFormatting(context, FormattingState("bold", ""))
      [] token.type = "strong_close" -> popFormatting(context, "bold")
      [] token.type = "em_open" ->
            pushFormatting(context, FormattingState("italic", ""))
      [] token.type = "em_close" -> popFormatting(context, "italic")
      [] token.type = "s_open" ->
            pushFormatting(context, FormattingState("strikethrough", ""))
      [] token.type = "s_close" -> popFormatting(context, "strikethrough")
      [] token.type = "link_open" ->
            IF token.href # ""
            THEN pushFormatting(context, FormattingState("link", token.href))
            ELSE context
      [] token.type = "link_close" -> popFormatting(context, "link")
      [] token.type = "bullet_list_open" -> pushList(context, "bullet")
      [] token.type = "ordered_list_open" -> pushList(context, "ordered")
      [] token.type \in {"bullet_list_close", "ordered_list_close"} ->
            popList(context)
      [] token.type = "list_item_open" -> handleListItemOpen(context)
      [] token.type = "list_item_close" -> handleListItemClose(context)
      [] token.type = "softbreak" -> insertText(<<" ">>, context)
      [] token.type = "hardbreak" -> insertText(<<NL>>, context)
      [] token.type = "inline" -> processChildren(token.children, 1, context)
      [] token.type = "table_open" -> handleTableOpen(token, context)
      [] token.type = "table_close" -> handleTableClose(context)
      [] token.type = "thead_open" -> inTable(context, "inHead", TRUE)
      [] token.type = "thead_close" -> inTable(context, "inHead", FALSE)
      [] token.type = "tbody_open" -> inTable(context, "inBody", TRUE)
      [] token.type = "tbody_close" -> inTable(context, "inBody", FALSE)
      [] token.type = "tr_open" -> inTable(context, "currentRow", <<>>)
      [] token.type = "tr_close" -> handleTableRowClose(context)
      [] token.type \in {"th_open", "td_open"} ->
            inTable(context, "currentCellText", <<>>)
      [] token.type \in {"th_close", "td_close"} -> handleTableCellClose(context)
      [] OTHER -> context

\* for (const token of parsed.tokens) { if (stopAfterTable) break; ... }
RECURSIVE processTokens(_, _, _)
processTokens(tokens, k, context) ==
    IF k > Len(tokens) \/ context.stopAfterTable \/ context.error # ""
    THEN context
    ELSE processTokens(tokens, k + 1, processToken(tokens[k], context))

\* One request for the marks of a range, one for its link.
textStyleRequests(range) ==
    (IF range.formatting.marks # {}
     THEN <<UpdateTextStyle(range.startIndex, range.endIndex,
                            range.formatting.marks, "")>>
     ELSE <<>>)
    \o (IF range.formatting.link # ""
        THEN <<UpdateTextStyle(range.startIndex, range.endIndex, {},
                               range.formatting.link)>>
        ELSE <<>>)

paragraphStyleRequests(paraRange) ==
    IF paraRange.namedStyleType # ""
    THEN <<UpdateParagraphStyle(paraRange.startIndex, paraRange.endIndex,
                                paraRange.namedStyleType)>>
    ELSE <<>>

bulletRequests(listItem) ==
    IF listItem.endIndex # -1
    THEN <<CreateParagraphBullets(listItem.startIndex, listItem.endIndex,
               IF listItem.isOrdered THEN "NUMBERED_DECIMAL_ALPHA_ROMAN"
               ELSE "BULLET_DISC_CIRCLE_SQUARE")>>
    ELSE <<>>

finalizeFormatting(context) ==
    [context EXCEPT !.formatRequests =
        @ \o flatten([k \in 1..Len(context.textRanges) |->
                        textStyleRequests(context.textRanges[k])])
          \o flatten([k \in 1..Len(context.paragraphRanges) |->
                        paragraphStyleRequests(context.paragraphRanges[k])])
          \o flatten([k \in 1..Len(context.pendingListItems) |->
                        bulletRequests(context.pendingListItems[k])])]

isBlankText(markdown) ==
    \A k \in 1..Len(markdown) : markdown[k].kind = "blank"

\* String.prototype.trim on the joined lines: the blank lines at both ends go.
RECURSIVE trimLines(_)
trimLines(lines) ==
    IF lines = <<>> THEN <<>>
    ELSE IF Head(lines).kind = "blank" THEN trimLines(Tail(lines))
    ELSE IF lines[Len(lines)].kind = "blank"
    THEN trimLines(SubSeq(lines, 1, Len(lines) - 1))
    ELSE lines

\* The remaining markdown with the slice left out.
remainingUnsliced(markdown, context) ==
    IF context.stopAfterTable /\ context.lastTableEndLine # -1
    THEN trimLines(markdown)
    ELSE <<>>

\* markdown.split('\n').slice(lastTableEndLine).join('\n').trim()
remainingAfter(markdown, context) ==
    IF context.stopAfterTable /\ context.lastTableEndLine # -1
    THEN trimLines(SubSeq(markdown, context.lastTableEndLine + 1, Len(markdown)))
    ELSE <<>>

\* postTableContent is <<>> where the code leaves it undefined.
conversionResult(markdown, context) ==
    IF context.error # ""
    THEN Throw(UserError(context.error, 0, 0, 0))
    ELSE Ok([requests |-> context.insertRequests \o context.formatRequests,
             pendingTableFills |-> context.pendingTableFills,
             postTableContent |-> remainingAfter(markdown, context)])

convertMarkdownToRequestsWithTables(markdown, startIndex) ==
    IF isBlankText(markdown)
    THEN Ok([requests |-> <<>>, pendingTableFills |-> <<>>,
             postTableContent |-> <<>>])
    ELSE conversionResult(markdown,
            finalizeFormatting(
                processTokens(parseMarkdown(markdown), 1, newContext(startIndex))))

\* ------------------------------------------------------------------------
\* server.ts: the markdown export of readGoogleDoc
\* ------------------------------------------------------------------------
RECURSIVE trimText(_)
trimText(text) ==
    IF text = <<>> THEN <<>>
    ELSE IF Head(text) \in Whitespace THEN trimText(Tail(text))
    ELSE IF text[Len(text)] \in Whitespace
    THEN trimText(SubSeq(text, 1, Len(text) - 1))
    ELSE text

wrapWith(text, mark) == mark \o text \o mark

emphasised(text, style) ==
    IF {"bold", "italic"} \subseteq style.marks
    THEN wrapWith(text, <<"*", "*", "*">>)
    ELSE IF "bold" \in style.marks THEN wrapWith(text, <<"*", "*">>)
    ELSE IF "italic" \in style.marks THEN wrapWith(text, <<"*">>)
    ELSE text

underlined(text, style) ==
    IF "underline" \in style.marks /\ style.link = ""
    THEN <<"<", "u", ">">> \o text \o <<"<", "/", "u", ">">>
    ELSE text

struck(text, style) ==
    IF "strikethrough" \in style.marks THEN wrapWith(text, <<"~", "~">>)
    ELSE text

linked(text, style) ==
    IF style.link # ""
    THEN <<"[">> \o text \o <<"]", "(", style.link, ")">>
    ELSE text

convertTextRunToMarkdown(textRun) ==
    linked(struck(underlined(emphasised(textRun.content, textRun.textStyle),
                             textRun.textStyle),
                  textRun.textStyle),
           textRun.textStyle)

paragraphMarkdownText(elements) ==
    flatten([k \in 1..Len(elements) |->
        IF elements[k].kind = "textRun"
        THEN convertTextRunToMarkdown(elements[k]) ELSE <<>>])

\* parseInt of what follows 'HEADING_'; TITLE is level 1, SUBTITLE level 2.
headingLevelOf(namedStyleType) ==
    CASE namedStyleType \in {"HEADING_1", "TITLE"} -> 1
      [] namedStyleType \in {"HEADING_2", "SUBTITLE"} -> 2
      [] namedStyleType = "HEADING_3" -> 3
      [] namedStyleType = "HEADING_4" -> 4
      [] namedStyleType = "HEADING_5" -> 5
      [] namedStyleType = "HEADING_6" -> 6
      [] OTHER -> 0

hashes(level) == [k \in 1..(IF level < 6 THEN level ELSE 6) |-> "#"]

formatParagraph(namedStyleType, isList, text) ==
    IF headingLevelOf(namedStyleType) > 0 /\ text # <<>>
    THEN hashes(headingLevelOf(namedStyleType)) \o <<" ">> \o text \o <<NL, NL>>
    ELSE IF isList /\ text # <<>> THEN <<"-", " ">> \o text \o <<NL>>
    ELSE IF text # <<>> THEN text \o <<NL, NL>>
    ELSE <<NL>>

convertParagraphToMarkdown(paragraph) ==
    formatParagraph(paragraph.namedStyleType, paragraph.bullet # "",
                    trimText(paragraphMarkdownText(paragraph.elements)))

\* pe.textRun.content.replace(/\n/g, ' ').trim()
runCellText(content) ==
    trimText([k \in 1..Len(content) |-> IF content[k] = NL THEN " " ELSE content[k]])

cellMarkdownText(cell) ==
    flatten([p \in 1..Len(cell.content) |->
        flatten([k \in 1..Len(cell.content[p].elements) |->
            IF cell.content[p].elements[k].kind = "textRun"
            THEN runCellText(cell.content[p].elements[k].content) ELSE <<>>])])

rowMarkdown(row) ==
    <<"|">>
    \o flatten([c \in 1..Len(row.tableCells) |->
            <<" ">> \o cellMarkdownText(row.tableCells[c]) \o <<" ", "|">>])
    \o <<NL>>

separatorMarkdown(row) ==
    <<"|">>
    \o flatten([c \in 1..Len(row.tableCells) |-> <<" ", "-", "-", "-", " ", "|">>])
    \o <<NL>>

convertTableToMarkdown(table) ==
    IF table.tableRows = <<>> THEN <<>>
    ELSE <<NL>>
         \o flatten([r \in 1..Len(table.tableRows) |->
                rowMarkdown(table.tableRows[r])
                \o (IF r = 1 THEN separatorMarkdown(table.tableRows[r]) ELSE <<>>)])
         \o <<NL>>

elementMarkdown(element) ==
    CASE element.kind = "paragraph" -> convertParagraphToMarkdown(element)
      [] element.kind = "table" -> convertTableToMarkdown(element.table)
      [] OTHER -> <<NL, "-", "-", "-", NL, NL>>

convertDocsJsonToMarkdown(bodyContent) ==
    trimText(flatten([k \in 1..Len(bodyContent) |-> elementMarkdown(bodyContent[k])]))

\* ------------------------------------------------------------------------
\* server.ts: fillPendingTables and executeMarkdownWithTables
\* ------------------------------------------------------------------------
\* What another editor of the shared document does between two calls of a
\* tool: nothing, or delete the tables the document holds.
VARIABLE others

outsideTables(flat) ==
    {p \in 1..Len(flat) :
        Cardinality({q \in 1..p : flat[q] = TableStart})
            = Cardinality({q \in 1..(p - 1) : flat[q] = TableEnd})}

withoutTables(remote) ==
    Remote([k \in 1..Cardinality(outsideTables(remote.flat)) |->
               remote.flat[sortedSeq(outsideTables(remote.flat))[k]]],
           [k \in 1..Cardinality(outsideTables(remote.flat)) |->
               remote.styles[sortedSeq(outsideTables(remote.flat))[k]]])

\* The document as the read that opens fillPendingTables finds it.
afterOthers(remote) ==
    IF others = "deleteTables" THEN withoutTables(remote) ELSE remote

\* const tableEl = tables.find(t => si >= insertIndex - 1 && si <= ...)
locatedTables(tables, fill) ==
    {k \in 1..Len(tables) :
        /\ tables[k].startIndex >= fill.insertIndex - 1
        /\ tables[k].startIndex <= fill.insertIndex + fill.rows * fill.columns * 3}

\* The edits of the non-empty cells, row by row.
fillEdits(data) ==
    flatten([r \in 1..Len(data) |->
        flatten([c \in 1..Len(data[r]) |->
            IF data[r][c] # <<>>
            THEN <<[row |-> r - 1, col |-> c - 1, text |-> data[r][c]]>>
            ELSE <<>>])])

headerCellBold(cell) ==
    IF cell.content # <<>> /\ getCellRange(cell).value.endIndex
                               > getCellRange(cell).value.startIndex + 1
    THEN <<UpdateTextStyle(getCellRange(cell).value.startIndex,
                           getCellRange(cell).value.endIndex - 1, {"bold"}, "")>>
    ELSE <<>>

boldRequests(tables2, tableIndex) ==
    IF tableIndex + 1 <= Len(tables2) /\ tables2[tableIndex + 1].table.tableRows # <<>>
    THEN flatten([c \in 1..Len(tables2[tableIndex + 1].table.tableRows[1].tableCells) |->
            headerCellBold(tables2[tableIndex + 1].table.tableRows[1].tableCells[c])])
    ELSE <<>>

\* The second read of the document and the bolding of the header row.
boldHeaders(remote, fill, tableIndex) ==
    IF fill.hasBoldHeaders
    THEN executeStyledBatch(remote,
            boldRequests(extractTableElements(documentsGet(remote.flat)), tableIndex))
    ELSE remote

\* What fillPendingTables has done so far: the document, the tables whose
\* cell edits it executed, the tables it logged as not located, the error
\* it threw.
FillState(remote, filled, skipped, error) ==
    [remote |-> remote, filled |-> filled, skipped |-> skipped, error |-> error]

executeFill(acc, fill, tableIndex, requests) ==
    IF ~requests.ok THEN [acc EXCEPT !.error = requests.error]
    ELSE FillState(boldHeaders(executeStyledBatch(acc.remote, requests.value),
                               fill, tableIndex),
                   IF requests.value # <<>> THEN acc.filled + 1 ELSE acc.filled,
                   acc.skipped, acc.error)

fillLocated(acc, bodyContent, fill, tableIndex) ==
    IF fillEdits(fill.data) = <<>> THEN acc
    ELSE executeFill(acc, fill, tableIndex,
            buildBatchEditCellRequests(bodyContent, tableIndex, fillEdits(fill.data)))

fillOne(acc, bodyContent, tables, fill) ==
    IF locatedTables(tables, fill) = {}
    THEN [acc EXCEPT !.skipped = @ + 1]
    ELSE fillLocated(acc, bodyContent, fill, Min(locatedTables(tables, fill)) - 1)

RECURSIVE fillEach(_, _, _, _)
fillEach(acc, bodyContent, pendingFills, k) ==
    IF k > Len(pendingFills) \/ acc.error # NoError THEN acc
    ELSE fillEach(fillOne(acc, bodyContent, extractTableElements(bodyContent),
                          pendingFills[k]),
                  bodyContent, pendingFills, k + 1)

fillPendingTables(remote, pendingFills) ==
    fillEach(FillState(afterOthers(remote), 0, 0, NoError),
             documentsGet(afterOthers(remote).flat), pendingFills, 1)

\* if (depth > 10) throw new UserError('Too many nested tables ...')
MAX_DEPTH == 10

\* What a call of executeMarkdownWithTables leaves: the document, the two
\* totals it returns, the number of the last phase it logged, the tables
\* fillPendingTables filled and skipped, and the error it threw.
PhaseState(remote, totalOps, totalTables, phases, filled, skipped, error) ==
    [remote |-> remote, totalOps |-> totalOps, totalTables |-> totalTables,
     phases |-> phases, filled |-> filled, skipped |-> skipped, error |-> error]

\* totalOps += sub.totalOps; totalTables += sub.totalTables
addSub(totalOps, totalTables, filled, skipped, sub) ==
    PhaseState(sub.remote, totalOps + sub.totalOps, totalTables + sub.totalTables,
               sub.phases, filled + sub.filled, skipped + sub.skipped, sub.error)

RECURSIVE executeMarkdownWithTables(_, _, _, _)
appendPostTable(conv, fills, depth) ==
    IF fills.error # NoError
    THEN PhaseState(fills.remote, 0, 0, depth + 1, fills.filled, fills.skipped,
                    fills.error)
    ELSE IF conv.postTableContent # <<>>
    THEN addSub(Len(conv.requests), Len(conv.pendingTableFills),
                fills.filled, fills.skipped,
                executeMarkdownWithTables(fills.remote, conv.postTableContent,
                    lastEndIndex(documentsGet(fills.remote.flat)) - 1, depth + 1))
    ELSE PhaseState(fills.remote, Len(conv.requests), Len(conv.pendingTableFills),
                    depth + 1, fills.filled, fills.skipped, NoError)

\* The remote end rejects a batch that starts past the end of the body.
rejectsBatch(flat, requests) ==
    requests # <<>> /\ Head(requests).startIndex > Len(flat)

executeConverted(remote, conv, depth) ==
    IF ~conv.ok THEN PhaseState(remote, 0, 0, depth, 0, 0, conv.error)
    ELSE IF rejectsBatch(remote.flat, conv.value.requests)
    THEN PhaseState(remote, 0, 0, depth + 1, 0, 0,
                    UserError("InvalidRequests", Head(conv.value.requests).startIndex,
                              Len(remote.flat), 0))
    ELSE appendPostTable(conv.value,
            fillPendingTables(executeStyledBatch(remote, conv.value.requests),
                              conv.value.pendingTableFills),
            depth)

executeMarkdownWithTables(remote, markdown, startIndex, depth) ==
    IF depth > MAX_DEPTH
    THEN PhaseState(remote, 0, 0, depth, 0, 0,
                    UserError("TooManyNestedTables", depth, MAX_DEPTH, 0))
    ELSE executeConverted(remote,
            convertMarkdownToRequestsWithTables(markdown, startIndex), depth)

\* ------------------------------------------------------------------------
\* server.ts: the markdown tools
\* ------------------------------------------------------------------------
firstParagraphEnd(bodyContent) ==
    LET S == {k \in 1..Len(bodyContent) : bodyContent[k].kind = "paragraph"}
    IN IF S = {} THEN 1 ELSE bodyContent[Min(S)].endIndex

\* Step 3 of replaceDocumentWithMarkdown: the delete, a call of its own.
deleteExisting(remote, startIndex, endIndex) ==
    IF endIndex > startIndex
    THEN applyStyled(remote, DeleteContentRange(startIndex, endIndex))
    ELSE remote

replaceFrom(remote, markdown, startIndex, endIndex) ==
    executeMarkdownWithTables(deleteExisting(remote, startIndex, endIndex),
                              markdown, startIndex, 0)

replaceDocumentWithMarkdown(remote, markdown, preserveTitle) ==
    replaceFrom(remote, markdown,
                IF preserveTitle THEN firstParagraphEnd(documentsGet(remote.flat))
                ELSE 1,
                lastEndIndex(documentsGet(remote.flat)) - 1)

\* Step 2 of appendMarkdownToGoogleDoc: the spacing, a call of its own.
appendAt(remote, markdown, startIndex, addNewlineIfNeeded) ==
    IF addNewlineIfNeeded /\ startIndex > 1
    THEN executeMarkdownWithTables(
            applyStyled(remote, InsertText(startIndex, <<NL, NL>>)),
            markdown, startIndex + 2, 0)
    ELSE executeMarkdownWithTables(remote, markdown, startIndex, 0)

appendMarkdownToGoogleDoc(remote, markdown, addNewlineIfNeeded) ==
    appendAt(remote, markdown, lastEndIndex(documentsGet(remote.flat)) - 1,
             addNewlineIfNeeded)

\* readGoogleDoc with format 'markdown'
readGoogleDoc(remote) ==
    convertDocsJsonToMarkdown(documentsGetStyled(remote.flat, remote.styles))

\* ------------------------------------------------------------------------
\* restoreParagraphBatch and copyParagraphBatch on a styled document
\* ------------------------------------------------------------------------
\* What a paragraph batch planned and did: the offsets of its loop, the
\* requests of its one combined batch, the document after that batch and the
\* document after the images.
\* server.ts, tool batchEditTableCellsFormatted.  Phase 2: the format
\* requests of the cells with a styled run, on a new read of the document.
cellFormatRequests(table, cell) ==
    buildFormattedCellFormatRequests(
        getCellInsertionPoint(getCellElement(table, cell.row, cell.col).value).value,
        cell.runs)

formattedPhase(inserted, tableIndex, cellsWithFormatting) ==
    IF Len(cellsWithFormatting) = 0 THEN <<>>
    ELSE flatten([k \in 1..Len(cellsWithFormatting) |->
            cellFormatRequests(
                getTableElement(documentsGet(inserted.flat), tableIndex).value.table,
                cellsWithFormatting[k])])

formattedEdited(inserted, cellFormatReqs) ==
    [ok |-> TRUE, inserted |-> inserted, formatRequests |-> cellFormatReqs,
     done |-> executeStyledBatch(inserted, cellFormatReqs)]

\* Phase 1: the text of each cell's runs, through buildBatchEditCellRequests.
batchEditTableCellsFormatted(remote, tableIndex, cells) ==
    LET textRequests ==
            buildBatchEditCellRequests(documentsGet(remote.flat), tableIndex,
                [k \in 1..Len(cells) |->
                    [row |-> cells[k].row, col |-> cells[k].col,
                     text |-> runsText(cells[k].runs)]])
    IN IF ~textRequests.ok
       THEN [ok |-> FALSE, inserted |-> remote, formatRequests |-> <<>>,
             done |-> remote]
       ELSE formattedEdited(executeStyledBatch(remote, textRequests.value),
                formattedPhase(executeStyledBatch(remote, textRequests.value),
                    tableIndex,
                    SelectSeq(cells, LAMBDA c : hasStyledRun(c.runs))))

BatchOutcome(paraData, insertPoint, planned, starts, requests, inserted, done) ==
    [paraData |-> paraData, insertPoint |-> insertPoint, planned |-> planned,
     starts |-> starts, requests |-> requests, inserted |-> inserted, done |-> done]

\* Phase 3: every image in a call of its own, a rejected call passed over.
imagesInserted(inserted, sorted) ==
    executeStyledBatch(inserted, SelectSeq(sorted, LAMBDA req : ~rejectsImage(<<req>>)))

batchInserted(remote, insertPoint, paraData, starts, requests) ==
    BatchOutcome(paraData, insertPoint, TRUE, starts, requests,
                 executeStyledBatch(remote, requests),
                 imagesInserted(executeStyledBatch(remote, requests),
                     sortInsertsDescending(paragraphImageInserts(paraData, starts))))

blankInserted(remote, insertPoint, paraData, requests) ==
    BatchOutcome(paraData, insertPoint, FALSE, <<>>, requests,
                 executeStyledBatch(remote, requests),
                 executeStyledBatch(remote, requests))

restoreBatchText(remote, insertPoint, paraData, allText) ==
    IF trimIsEmpty(allText)
       /\ \A k \in 1..Len(paraData) : Len(paraData[k].imageInfo) = 0
    THEN blankInserted(remote, insertPoint, paraData,
            IF Len(allText) > 0 THEN <<InsertText(insertPoint, allText)>> ELSE <<>>)
    ELSE batchInserted(remote, insertPoint, paraData,
            paragraphStarts(paraData, 1, insertPoint),
            allRequests(insertPoint, paraData, allText,
                        paragraphStarts(paraData, 1, insertPoint)))

\* restoreParagraphBatch, with the styles its requests set.
restoreParagraphBatchStyled(remote, paragraphElements, inlineObjects) ==
    restoreBatchText(remote, getInsertionPoint(remote.flat),
        [k \in 1..Len(paragraphElements) |->
            extractParagraphFormattedContent(paragraphElements[k], inlineObjects)],
        flatten([k \in 1..Len(paragraphElements) |->
            runsText(extractParagraphFormattedContent(paragraphElements[k],
                                                      inlineObjects).runs)
            \o <<NL>>]))

\* copy-doc-formatted: extractParagraphRuns and copyParagraphBatch.
extractParagraphRuns(paragraph, inlineObjects) ==
    extractParagraphElements(paragraph.elements, 1, inlineObjects,
        [runs |-> <<>>, imageInfo |-> <<>>, textOffset |-> 0])

copyParagraphData(paragraph, inlineObjects) ==
    [runs |-> extractParagraphRuns(paragraph, inlineObjects).runs,
     imageInfo |-> extractParagraphRuns(paragraph, inlineObjects).imageInfo,
     namedStyle |-> paragraph.namedStyleType,
     fullText |-> runsText(extractParagraphRuns(paragraph, inlineObjects).runs)]

\* pd.startIndex = paraStart; offset = paraStart + pd.fullText.length + 1
RECURSIVE copyStarts(_, _, _)
copyStarts(paraData, k, offset) ==
    IF k > Len(paraData) THEN <<>>
    ELSE <<offset>> \o copyStarts(paraData, k + 1, offset + Len(paraData[k].fullText) + 1)

copyParagraphStyle(pd, paraStart) ==
    IF pd.namedStyle # "" /\ pd.namedStyle # NORMAL_TEXT
    THEN <<UpdateParagraphStyle(paraStart, paraStart + Len(pd.fullText) + 1,
                                pd.namedStyle)>>
    ELSE <<>>

copyRequests(insertPoint, paraData, allText, starts) ==
    <<InsertText(insertPoint, allText)>>
    \o flatten([k \in 1..Len(paraData) |-> copyParagraphStyle(paraData[k], starts[k])])
    \o flatten([k \in 1..Len(paraData) |->
            runFormatRequests(paraData[k].runs, 1, starts[k])])

copyBatchText(remote, insertPoint, paraData, allText) ==
    IF trimIsEmpty(allText)
       /\ \A k \in 1..Len(paraData) : Len(paraData[k].imageInfo) = 0
    THEN blankInserted(remote, insertPoint, paraData,
            IF Len(allText) > 0 THEN <<InsertText(insertPoint, allText)>> ELSE <<>>)
    ELSE batchInserted(remote, insertPoint, paraData,
            copyStarts(paraData, 1, insertPoint),
            copyRequests(insertPoint, paraData, allText,
                         copyStarts(paraData, 1, insertPoint)))

copyParagraphBatch(remote, paragraphElements, inlineObjects) ==
    copyBatchText(remote, getInsertionPoint(remote.flat),
        [k \in 1..Len(paragraphElements) |->
            copyParagraphData(paragraphElements[k], inlineObjects)],
        flatten([k \in 1..Len(paragraphElements) |->
            copyParagraphData(paragraphElements[k], inlineObjects).fullText
            \o <<NL>>]))

\* ------------------------------------------------------------------------
\* State
\* ------------------------------------------------------------------------
VARIABLES
    tdoc,       \* the remote document the table tools work on
    tpre,       \* that document as it was before the last tool call
    tcall,      \* the last table tool call: its name and arguments
    tout,       \* what that call built, threw and executed
    doc,        \* the remote document the snapshot tools work on
    undoStack,  \* snapshotStacks.get(documentId).undoStack
    redoStack,  \* snapshotStacks.get(documentId).redoStack
    nextId,     \* the ids generateId has handed out so far, plus one
    last,       \* the last snapshot tool call and its outcome
    pre,        \* the stacks and the document before that call
    created,    \* ids made by the createSnapshot calls since the last other call
    budget,     \* calls the model may still make, per kind
    mdoc,       \* the remote document the markdown tools work on, with its styles
    mcall,      \* the last markdown tool call: its name and arguments
    mout,       \* what that call returned, logged and threw
    mwritten,   \* the markdown the last replaceDocumentWithMarkdown call wrote
    bgiven,     \* the paragraphs or the cell runs a builder is given
    bout,       \* what the last builder call computed, built and inserted
    calls       \* the undo and redo calls in flight, one per caller

\* The callers of undoLastChange and redoLastChange on the one document.
Callers == {1, 2}

\* A caller with no call in flight.  In a call, op is the tool, pc the await
\* the call stands at, before the stacks at its start, captured and popped
\* the snapshot it pushed and the one stack.pop() gave it (isUndefined when
\* pop() gave undefined), alone whether no other call has run beside a call
\* of this caller.
IdleCaller ==
    [op |-> "none", pc |-> "idle", status |-> "none",
     before |-> [undoStack |-> <<>>, redoStack |-> <<>>],
     captured |-> NoSnapshot, popped |-> NoSnapshot, isUndefined |-> FALSE,
     alone |-> TRUE]

NoCalls == [c \in Callers |-> IdleCaller]

tableVars == <<tdoc, tpre, tcall, tout>>
snapVars == <<doc, undoStack, redoStack, nextId, last, pre, created, budget>>
mdVars == <<mdoc, mcall, mout, mwritten>>
batchVars == <<bgiven, bout>>
vars == <<tdoc, tpre, tcall, tout, doc, undoStack, redoStack, nextId, last, pre,
          created, budget, mdoc, mcall, mout, mwritten, bgiven, bout, expired,
          others, calls>>

\* ------------------------------------------------------------------------
\* Markdown texts and the documents they are written to
\* ------------------------------------------------------------------------
MaxChain == 12

ParagraphBlocks ==
    {<<TextLine(<<Plain(<<"a">>)>>)>>,
     <<TextLine(<<Span(<<"b">>, {"bold"}, "")>>)>>,
     <<TextLine(<<Plain(<<"a", " ">>), Span(<<"b">>, {"bold", "italic"}, "")>>)>>,
     <<TextLine(<<Span(<<"c">>, {"strikethrough"}, "u")>>)>>,
     <<TextLine(<<Plain(<<"a">>)>>), TextLine(<<Span(<<"b">>, {"italic"}, "")>>)>>}

HeadingBlocks ==
    {<<HeadingLine(1, <<Plain(<<"h">>)>>)>>,
     <<HeadingLine(3, <<Span(<<"h">>, {"bold"}, "")>>)>>,
     <<HeadingLine(6, <<Plain(<<"h", "a">>)>>)>>}

ListBlocks ==
    {<<BulletLine(<<Plain(<<"a">>)>>), BulletLine(<<Plain(<<"b">>)>>)>>,
     <<OrderedLine(<<Plain(<<"a">>)>>), OrderedLine(<<Plain(<<"b">>)>>)>>,
     <<BulletLine(<<Span(<<"c">>, {"bold"}, "")>>)>>}

\* A header row alone, a header and a shorter body row, a table of empty cells.
TableBlocks ==
    {<<RowLine(<<<<"h">>>>), DelimiterLine(1)>>,
     <<RowLine(<<<<"h">>, <<"a">>>>), DelimiterLine(2), RowLine(<<<<"b">>>>)>>,
     <<RowLine(<<<<>>>>), DelimiterLine(1), RowLine(<<<<>>>>)>>}

\* Lists with a list inside an item.
NestedListBlocks ==
    {<<BulletLine(<<Plain(<<"a">>)>>), Nested(BulletLine(<<Plain(<<"b">>)>>))>>,
     <<OrderedLine(<<Plain(<<"a">>)>>), Nested(OrderedLine(<<Plain(<<"b">>)>>)),
       Nested(OrderedLine(<<Plain(<<"c">>)>>)), OrderedLine(<<Plain(<<"d">>)>>)>>}

Blocks == ParagraphBlocks \cup HeadingBlocks \cup ListBlocks \cup TableBlocks

\* n tables, a blank line between each two.
RECURSIVE tableChain(_)
tableChain(n) ==
    IF n = 0 THEN <<>>
    ELSE <<RowLine(<<<<"h">>>>), DelimiterLine(1)>>
         \o (IF n > 1 THEN <<Blank>> ELSE <<>>) \o tableChain(n - 1)

Markdowns ==
    {<<Blank>>}
    \cup Blocks
    \cup {b1 \o <<Blank>> \o b2 : b1 \in Blocks, b2 \in Blocks}
    \cup {b1 \o <<Blank>> \o t \o <<Blank, Blank>> \o b2 :
            b1 \in ParagraphBlocks \cup ListBlocks, t \in TableBlocks,
            b2 \in HeadingBlocks \cup TableBlocks}
    \cup {tableChain(n) : n \in (MaxChain - 2)..MaxChain}
    \cup NestedListBlocks
    \cup {b1 \o <<Blank>> \o b2 : b1 \in NestedListBlocks, b2 \in TableBlocks}

\* The documents the markdown tools find: without styles.
MarkdownDocs == {<<NL>>, <<"x", NL>>, <<"x", NL, "y", "z", NL>>}

StartIndexes == {1, 2}

NoConversion ==
    [requests |-> <<>>, pendingTableFills |-> <<>>, postTableContent |-> <<>>]

NoMarkdownCall ==
    [name |-> "none", markdown |-> <<>>, startIndex |-> 0, flag |-> FALSE]

NoMarkdownOutput ==
    [ok |-> TRUE, error |-> NoError, totalOps |-> 0, totalTables |-> 0,
     phases |-> 0, filled |-> 0, skipped |-> 0, result |-> NoConversion,
     markdown |-> <<>>]

NothingWritten == [valid |-> FALSE, markdown |-> <<>>]

\* What the other editors of the document may do while a markdown tool runs.
OtherEditors == {"idle", "deleteTables"}

\* The images that may have expired when a snapshot is restored.
ExpiredImages == {{}, {"i1"}}

NoBatchInput ==
    [kind |-> "none", source |-> Remote(<<NL>>, plainStyles(<<NL>>)),
     target |-> <<NL>>, runs |-> <<>>, cellStartIndex |-> 0,
     cell |-> [startIndex |-> 0, endIndex |-> 0, content |-> <<>>],
     snapshot |-> NoSnapshot, cells |-> <<>>]

NoBatchOutput ==
    [name |-> "none", paraData |-> <<>>, insertPoint |-> 0, planned |-> FALSE,
     starts |-> <<>>, requests |-> <<>>,
     inserted |-> Remote(<<NL>>, plainStyles(<<NL>>)),
     done |-> Remote(<<NL>>, plainStyles(<<NL>>)),
     content |-> [runs |-> <<>>, imageInfo |-> <<>>],
     groups |-> <<>>,
     restore |-> [doc |-> <<NL>>, reads |-> 0, writes |-> 0, ok |-> TRUE]]

BatchIdle ==
    /\ bgiven = NoBatchInput
    /\ bout = NoBatchOutput

MarkdownIdle ==
    /\ mdoc = Remote(<<NL>>, plainStyles(<<NL>>))
    /\ mcall = NoMarkdownCall
    /\ mout = NoMarkdownOutput
    /\ mwritten = NothingWritten

\* ------------------------------------------------------------------------
\* Documents with one table
\* ------------------------------------------------------------------------
\* What a cell may hold: its paragraphs, each without its terminating newline.
CellChoices ==
    << <<<<>>>>,                             \* empty
       <<<<"a", "b">>>>,                     \* text
       <<<<"a", "b">>, <<"i1">>>>,           \* text paragraph, image-only paragraph
       <<<<"i1">>>>,                         \* image only
       <<<<"a", "i2">>>>,                    \* an image sharing a paragraph with text
       <<<<"a">>, <<"i1">>, <<"b", "b">>>> >> \* text, image, text

\* A paragraph, the table, and the paragraph that always follows a table.
docWithTable(rows) == <<"p", NL>> \o tableTokens(rows) \o <<"z", NL>>

Shapes == {s \in (1..MaxCells) \X (1..MaxCells) : s[1] * s[2] <= MaxCells}

\* The table of shape s whose k-th cell (row-major) holds choice seed + k * stride.
patternRows(s, seed, stride) ==
    [r \in 1..s[1] |-> [c \in 1..s[2] |->
        CellChoices[((seed + ((r - 1) * s[2] + (c - 1)) * stride) % Len(CellChoices)) + 1]]]

TableDocs ==
    { docWithTable(patternRows(s, seed, stride)) :
        s \in Shapes, seed \in 0..(Len(CellChoices) - 1),
        stride \in 0..(Len(CellChoices) - 1) }

\* A table wide enough that one edit of every cell needs more than one chunk.
WIDE_COLUMNS == 13
WideDoc ==
    docWithTable(<<[c \in 1..WIDE_COLUMNS |-> <<<<"a">>, <<"b">>, <<"a", "b">>>>]>>)

NewTexts == {<<>>, <<"x">>, <<"x", "y", "x">>}

\* Indexes the helpers are called with, and those the tools' parameter
\* schemas let through (z.number().int().min(0)).
Indexes == (-1)..(MaxCells + 2)
ToolIndexes == 0..MaxCells
TableIndexes == (-1)..1
ToolTableIndexes == 0..1

rowCount(flat) ==
    LET tables == extractTableElements(documentsGet(flat))
    IN IF Len(tables) = 0 THEN 0 ELSE Len(tables[1].table.tableRows)

cellsOf(flat) ==
    LET tables == extractTableElements(documentsGet(flat))
    IN IF Len(tables) = 0 THEN {}
       ELSE LET tableRows == tables[1].table.tableRows
            IN UNION { { <<r - 1, c - 1>> : c \in 1..Len(tableRows[r].tableCells) }
                       : r \in 1..Len(tableRows) }

RECURSIVE seqsUpTo(_, _)
seqsUpTo(S, n) ==
    IF n = 0 THEN {<<>>}
    ELSE LET shorter == seqsUpTo(S, n - 1)
         IN shorter \cup { Append(s, x) : s \in shorter, x \in S }

CellEdits(flat) ==
    { [row |-> rc[1], col |-> rc[2], text |-> t] : rc \in cellsOf(flat), t \in NewTexts }

\* The edits lists batchEditTableCells is called with (at least one edit).
wideEdits(order) ==
    [k \in 1..WIDE_COLUMNS |->
        [row |-> 0,
         col |-> (IF order = "ascending" THEN k - 1
                  ELSE IF order = "descending" THEN WIDE_COLUMNS - k
                  ELSE (k * 5) % WIDE_COLUMNS),
         text |-> IF k % 2 = 0 THEN <<"x">> ELSE <<"x", "y", "x">>]]

\* A table index past the last table is refused before the edits are looked
\* at, so one edit is enough there.
BatchInputs(flat, tableIndex) ==
    IF Cardinality(cellsOf(flat)) > MaxCells + 2
    THEN { wideEdits(o) : o \in {"ascending", "descending", "scattered"} }
    ELSE IF tableIndex >= Len(extractTableElements(documentsGet(flat)))
    THEN { <<e>> : e \in CellEdits(flat) }
    ELSE seqsUpTo(CellEdits(flat), MaxEdits) \ {<<>>}

NoCall == [name |-> "none", tableIndex |-> 0, edits |-> <<>>]
NoOutput == [ok |-> TRUE, requests |-> <<>>, error |-> NoError, apiCalls |-> 0,
             cell |-> <<>>]

TableInit ==
    /\ tdoc \in TableDocs \cup {WideDoc}
    /\ tpre = tdoc
    /\ tcall = NoCall
    /\ tout = NoOutput

\* A direct use of the two bounds-checked accessors on a freshly read body.
callGetCellElement(tableIndex, row, col) ==
    LET tableEl == getTableElement(documentsGet(tdoc), tableIndex)
        cell == IF tableEl.ok THEN getCellElement(tableEl.value.table, row, col)
                ELSE Throw(tableEl.error)
    IN /\ tcall.name = "none"
       /\ UNCHANGED <<snapVars, mdVars, batchVars, expired, others, calls>>
       /\ tcall' = [name |-> "getCellElement", tableIndex |-> tableIndex,
                    edits |-> <<[row |-> row, col |-> col, text |-> <<>>]>>]
       /\ tpre' = tdoc
       /\ tdoc' = tdoc
       /\ tout' = [ok |-> cell.ok, requests |-> <<>>, error |-> cell.error,
                   apiCalls |-> 0, cell |-> cell.value]

\* server.ts, tool editTableCell: read, build, one batchUpdate.
editTableCell(tableIndex, rowIndex, columnIndex, newText) ==
    LET built == buildEditCellRequests(documentsGet(tdoc), tableIndex, rowIndex,
                                       columnIndex, newText)
        execute == built.ok /\ Len(built.value) # 0
    IN /\ tcall.name = "none"
       /\ UNCHANGED <<snapVars, mdVars, batchVars, expired, others, calls>>
       /\ tcall' = [name |-> "editTableCell", tableIndex |-> tableIndex,
                    edits |-> <<[row |-> rowIndex, col |-> columnIndex,
                                 text |-> newText]>>]
       /\ tpre' = tdoc
       /\ tdoc' = IF execute THEN executeBatchUpdate(tdoc, built.value) ELSE tdoc
       /\ tout' = [ok |-> built.ok, requests |-> built.value, error |-> built.error,
                   apiCalls |-> IF execute THEN 1 ELSE 0, cell |-> <<>>]

\* server.ts, tool batchEditTableCells: read, build, chunked execution.
batchEditTableCells(tableIndex, edits) ==
    LET built == buildBatchEditCellRequests(documentsGet(tdoc), tableIndex, edits)
        execute == built.ok /\ Len(built.value) # 0
        done == executeBatchUpdateChunked(tdoc, built.value, BATCH_CHUNK_SIZE)
    IN /\ tcall.name = "none"
       /\ UNCHANGED <<snapVars, mdVars, batchVars, expired, others, calls>>
       /\ tcall' = [name |-> "batchEditTableCells", tableIndex |-> tableIndex,
                    edits |-> edits]
       /\ tpre' = tdoc
       /\ tdoc' = IF execute THEN done.doc ELSE tdoc
       /\ tout' = [ok |-> built.ok, requests |-> built.value, error |-> built.error,
                   apiCalls |-> IF execute THEN done.apiCalls ELSE 0,
                   cell |-> <<>>]

\* What a helper that builds requests, and does not execute them, hands back.
builtOutput(built) ==
    [ok |-> built.ok, requests |-> built.value, error |-> built.error,
     apiCalls |-> 0, cell |-> <<>>]

\* What findTableRows hands back: the matching rows, or the error thrown.
searchOutput(found) ==
    [ok |-> found.ok, requests |-> <<>>, error |-> found.error, apiCalls |-> 0,
     cell |-> <<>>, results |-> found.value]

SearchTexts == {<<"a">>, <<"A", "b">>, <<"x">>}

\* Row and column ranges: absent, open-ended, and with a span; starting inside
\* the smallest table and past every table.
StyleRanges ==
    {NoRange, RangeFrom(0), RangeFrom(MaxCells), RangeOf(0, 1), RangeOf(MaxCells, 1)}

\* The names of the style properties given (CellStyleUpdate).
StyleFields == {{}, {"contentAlignment"}}

\* server.ts, tool findTableRow: read, search, report.
findTableRow(tableIndex, searchColumn, searchText, caseSensitive) ==
    /\ tcall.name = "none"
    /\ UNCHANGED <<snapVars, mdVars, batchVars, expired, others, calls>>
    /\ tcall' = [name |-> "findTableRows", tableIndex |-> tableIndex,
                 edits |-> <<[row |-> 0, col |-> searchColumn, text |-> searchText]>>]
    /\ tpre' = tdoc
    /\ tdoc' = tdoc
    /\ tout' = searchOutput(findTableRows(documentsGet(tdoc), tableIndex,
                                          searchColumn, searchText, caseSensitive))

\* A direct use of buildAddTableRowRequest on a freshly read body.
callBuildAddTableRowRequest(tableIndex, insertBelow) ==
    /\ tcall.name = "none"
    /\ UNCHANGED <<snapVars, mdVars, batchVars, expired, others, calls>>
    /\ tcall' = [name |-> "buildAddTableRowRequest", tableIndex |-> tableIndex,
                 edits |-> <<[row |-> insertBelow, col |-> 0, text |-> <<>>]>>]
    /\ tpre' = tdoc
    /\ tdoc' = tdoc
    /\ tout' = builtOutput(buildAddTableRowRequest(documentsGet(tdoc), tableIndex,
                                                   insertBelow))

\* A direct use of buildUpdateTableCellStyleRequests on a freshly read body.
callBuildUpdateTableCellStyleRequests(tableIndex, fields, rowRange, colRange) ==
    /\ tcall.name = "none"
    /\ UNCHANGED <<snapVars, mdVars, batchVars, expired, others, calls>>
    /\ tcall' = [name |-> "buildUpdateTableCellStyleRequests",
                 tableIndex |-> tableIndex, edits |-> <<>>, fields |-> fields,
                 rowRange |-> rowRange, colRange |-> colRange]
    /\ tpre' = tdoc
    /\ tdoc' = tdoc
    /\ tout' = builtOutput(buildUpdateTableCellStyleRequests(documentsGet(tdoc),
                    tableIndex, fields, rowRange, colRange))

NoOutcome == [op |-> "none", status |-> "none", snapshot |-> NoSnapshot,
              reads |-> 0, writes |-> 0]

SnapIdle ==
    /\ doc = <<NL>>
    /\ undoStack = <<>>
    /\ redoStack = <<>>
    /\ nextId = 1
    /\ last = NoOutcome
    /\ pre = [undoStack |-> <<>>, redoStack |-> <<>>, doc |-> <<NL>>]
    /\ created = <<>>
    /\ budget = [creates |-> 0, moves |-> 0, edits |-> 0]

InitTable == TableInit /\ SnapIdle /\ MarkdownIdle /\ BatchIdle /\ expired = {}
             /\ others = "idle" /\ calls = NoCalls

NextTable ==
    \/ \E ti \in TableIndexes, r \in Indexes, c \in Indexes :
           callGetCellElement(ti, r, c)
    \/ \E ti \in ToolTableIndexes, r \in ToolIndexes, c \in ToolIndexes,
           t \in NewTexts : editTableCell(ti, r, c, t)
    \/ \E ti \in ToolTableIndexes : \E edits \in BatchInputs(tdoc, ti) :
           batchEditTableCells(ti, edits)
    \/ \E ti \in ToolTableIndexes, c \in ToolIndexes, t \in SearchTexts,
           cs \in BOOLEAN : findTableRow(ti, c, t, cs)
    \/ \E ti \in TableIndexes, r \in Indexes : callBuildAddTableRowRequest(ti, r)
    \/ \E ti \in ToolTableIndexes, f \in StyleFields, rr \in StyleRanges,
           cr \in StyleRanges : callBuildUpdateTableCellStyleRequests(ti, f, rr, cr)

SpecTable == InitTable /\ [][NextTable]_vars

\* ------------------------------------------------------------------------
\* The snapshot tools on one document
\* ------------------------------------------------------------------------
\* Live documents the snapshot tools meet: paragraphs only, paragraphs with
\* images, and a table between paragraphs.
SnapDocs ==
    { <<NL>>,
      <<"a", NL>>,
      <<"a", NL, "b", "c", NL>>,
      <<"a", NL, NL>>,
      <<"a", "i1", "b", NL, "i2", NL>>,
      <<"p", NL>> \o tableTokens(<< << <<<<"a">>>>, <<<<"i1">>, <<"b">>>> >> >>)
                 \o <<"z", NL>> }

LongHistoryDoc == <<"a", NL>>

Labels == {"snapshot"}

TableIdle ==
    /\ tdoc = <<NL>>
    /\ tpre = <<NL>>
    /\ tcall = NoCall
    /\ tout = NoOutput

Init ==
    /\ TableIdle
    /\ MarkdownIdle
    /\ BatchIdle
    /\ expired \in ExpiredImages
    /\ others = "idle"
    /\ calls = NoCalls
    /\ \/ /\ doc = LongHistoryDoc
          /\ budget = [creates |-> MaxCreates, moves |-> MaxMoves, edits |-> 0]
       \/ /\ doc \in SnapDocs
          /\ budget = [creates |-> RestoreCreates, moves |-> RestoreMoves,
                       edits |-> RestoreEdits]
    /\ undoStack = <<>>
    /\ redoStack = <<>>
    /\ nextId = 1
    /\ last = NoOutcome
    /\ pre = [undoStack |-> <<>>, redoStack |-> <<>>, doc |-> doc]
    /\ created = <<>>

remember == pre' = [undoStack |-> undoStack, redoStack |-> redoStack, doc |-> doc]

createSnapshot(label) ==
    LET snapshot == captureSnapshot(doc, nextId, label)
    IN /\ budget.creates > 0
       /\ UNCHANGED <<tableVars, mdVars, batchVars, expired, others, calls>>
       /\ budget' = [budget EXCEPT !.creates = @ - 1]
       /\ remember
       /\ nextId' = nextId + 1
       /\ undoStack' = enforceMaxSnapshots(Append(undoStack, snapshot))
       /\ redoStack' = newChangeBranch(redoStack)
       /\ doc' = doc
       /\ created' = Append(created, snapshot.id)
       /\ last' = [op |-> "createSnapshot", status |-> "ok", snapshot |-> snapshot,
                   reads |-> 1, writes |-> 0]

\* await restoreDocumentContent(docs, documentId, snapshot); return {restored}
restored(op, snapshot, restore) ==
    /\ doc' = restore.doc
    /\ last' = [op |-> op, status |-> IF restore.ok THEN "ok" ELSE "RestoreFailed",
                snapshot |-> snapshot, reads |-> 1 + restore.reads,
                writes |-> restore.writes]

\* const snapshot = stack.pop()!; restore it
popAndRestore(op, popped) ==
    restored(op, popped.snapshot, restoreDocumentContent(doc, popped.snapshot))

undoLastChange ==
    /\ budget.moves > 0
    /\ UNCHANGED <<tableVars, mdVars, batchVars, expired, others, calls>>
    /\ budget' = [budget EXCEPT !.moves = @ - 1]
    /\ remember
    /\ created' = <<>>
    /\ IF Len(undoStack) = 0
       THEN /\ last' = emptyHistory("undoLastChange")
            /\ UNCHANGED <<doc, undoStack, redoStack, nextId>>
       ELSE /\ nextId' = nextId + 1
            /\ redoStack' = Append(redoStack,
                                   captureSnapshot(doc, nextId, "pre-undo state"))
            /\ undoStack' = pop(undoStack).rest
            /\ popAndRestore("undoLastChange", pop(undoStack))

redoLastChange ==
    /\ budget.moves > 0
    /\ UNCHANGED <<tableVars, mdVars, batchVars, expired, others, calls>>
    /\ budget' = [budget EXCEPT !.moves = @ - 1]
    /\ remember
    /\ created' = <<>>
    /\ IF Len(redoStack) = 0
       THEN /\ last' = emptyHistory("redoLastChange")
            /\ UNCHANGED <<doc, undoStack, redoStack, nextId>>
       ELSE /\ nextId' = nextId + 1
            /\ undoStack' = Append(undoStack,
                                   captureSnapshot(doc, nextId, "pre-redo state"))
            /\ redoStack' = pop(redoStack).rest
            /\ popAndRestore("redoLastChange", pop(redoStack))

\* Any other tool, or a person, changing the document between two snapshot calls.
editDocument(flat) ==
    /\ budget.edits > 0
    /\ flat # doc
    /\ UNCHANGED <<tableVars, mdVars, batchVars, expired, others, calls>>
    /\ budget' = [budget EXCEPT !.edits = @ - 1]
    /\ remember
    /\ created' = <<>>
    /\ doc' = flat
    /\ last' = [NoOutcome EXCEPT !.op = "editDocument", !.status = "ok"]
    /\ UNCHANGED <<undoStack, redoStack, nextId>>

Next ==
    \/ \E label \in Labels : createSnapshot(label)
    \/ undoLastChange
    \/ redoLastChange
    \/ \E flat \in SnapDocs : editDocument(flat)

Spec == Init /\ [][Next]_vars

\* ------------------------------------------------------------------------
\* The markdown tools on one document
\* ------------------------------------------------------------------------
InitMarkdown ==
    /\ TableIdle
    /\ SnapIdle
    /\ BatchIdle
    /\ expired = {}
    /\ others \in OtherEditors
    /\ calls = NoCalls
    /\ \E flat \in MarkdownDocs : mdoc = Remote(flat, plainStyles(flat))
    /\ mcall = NoMarkdownCall
    /\ mout = NoMarkdownOutput
    /\ mwritten = NothingWritten

conversionOutput(conv) ==
    [NoMarkdownOutput EXCEPT
        !.ok = conv.ok, !.error = conv.error,
        !.result = IF conv.ok THEN conv.value ELSE NoConversion]

\* A direct use of convertMarkdownToRequestsWithTables.
callConvertMarkdown(markdown, startIndex) ==
    /\ mcall.name = "none"
    /\ UNCHANGED <<tableVars, snapVars, batchVars, expired, others, calls>>
    /\ mcall' = [name |-> "convertMarkdownToRequestsWithTables",
                 markdown |-> markdown, startIndex |-> startIndex, flag |-> FALSE]
    /\ mout' = conversionOutput(convertMarkdownToRequestsWithTables(markdown, startIndex))
    /\ mdoc' = mdoc
    /\ mwritten' = mwritten

toolOutput(done) ==
    [NoMarkdownOutput EXCEPT
        !.ok = done.error = NoError, !.error = done.error,
        !.totalOps = done.totalOps, !.totalTables = done.totalTables,
        !.phases = done.phases, !.filled = done.filled, !.skipped = done.skipped]

written(name, markdown, flag, done) ==
    /\ mcall' = [name |-> name, markdown |-> markdown, startIndex |-> 0,
                 flag |-> flag]
    /\ mout' = toolOutput(done)
    /\ mdoc' = done.remote
    /\ mwritten' = IF name = "replaceDocumentWithMarkdown" /\ ~flag
                      /\ done.error = NoError
                   THEN [valid |-> TRUE, markdown |-> markdown]
                   ELSE NothingWritten

callReplaceDocumentWithMarkdown(markdown, preserveTitle) ==
    /\ mcall.name = "none"
    /\ UNCHANGED <<tableVars, snapVars, batchVars, expired, others, calls>>
    /\ written("replaceDocumentWithMarkdown", markdown, preserveTitle,
               replaceDocumentWithMarkdown(mdoc, markdown, preserveTitle))

callAppendMarkdownToGoogleDoc(markdown, addNewlineIfNeeded) ==
    /\ mcall.name = "none"
    /\ UNCHANGED <<tableVars, snapVars, batchVars, expired, others, calls>>
    /\ written("appendMarkdownToGoogleDoc", markdown, addNewlineIfNeeded,
               appendMarkdownToGoogleDoc(mdoc, markdown, addNewlineIfNeeded))

callReadGoogleDoc ==
    /\ mcall.name \in {"replaceDocumentWithMarkdown", "appendMarkdownToGoogleDoc"}
    /\ UNCHANGED <<tableVars, snapVars, batchVars, expired, others, calls>>
    /\ mcall' = [mcall EXCEPT !.name = "readGoogleDoc"]
    /\ mout' = [NoMarkdownOutput EXCEPT !.markdown = readGoogleDoc(mdoc)]
    /\ mdoc' = mdoc
    /\ mwritten' = mwritten

NextMarkdown ==
    \/ \E markdown \in Markdowns, startIndex \in StartIndexes :
          callConvertMarkdown(markdown, startIndex)
    \/ \E markdown \in Markdowns \ {<<Blank>>}, preserveTitle \in BOOLEAN :
          callReplaceDocumentWithMarkdown(markdown, preserveTitle)
    \/ \E markdown \in Markdowns \ {<<Blank>>}, addNewlineIfNeeded \in BOOLEAN :
          callAppendMarkdownToGoogleDoc(markdown, addNewlineIfNeeded)
    \/ callReadGoogleDoc

SpecMarkdown == InitMarkdown /\ [][NextMarkdown]_vars

\* ------------------------------------------------------------------------
\* The paragraph and cell builders on drawn inputs
\* ------------------------------------------------------------------------
MaxRuns == 3

BatchFlats ==
    { <<"a", "b", NL, "c", NL>>,
      <<"a", "i1", "b", NL, NL, "c", "d", NL>>,
      <<NL, "a", NL>>,
      <<"i1", NL, "a", "b", "c", NL>>,
      <<NL, NL>>,
      <<"a", "i1", "i2", "b", NL>>,
      <<"i2", "a", NL, "b", "i1", "c", NL>> }

\* Style requests a source document may have received before it is read; a
\* named style of "" is a paragraph read without one.
SourceStyles ==
    <<UpdateTextStyle(1, 2, {"bold"}, ""),
      UpdateTextStyle(2, 4, {"italic"}, "u"),
      UpdateParagraphStyle(1, 2, "HEADING_1"),
      UpdateParagraphStyle(4, 6, "HEADING_2"),
      UpdateParagraphStyle(2, 3, "")>>

pick(seq, S) == [k \in 1..Cardinality(S) |-> seq[sortedSeq(S)[k]]]

BatchSources ==
    {executeStyledBatch(Remote(flat, plainStyles(flat)), pick(SourceStyles, S)) :
        flat \in BatchFlats, S \in SUBSET (1..Len(SourceStyles))}

BatchTargets == {<<NL>>, <<"x", NL>>, <<"x", NL, "y", "z", NL>>}

RunTexts == {<<>>, <<"a">>, <<"a", "b">>}
RunStyles == {NoTextStyle, [marks |-> {"bold"}, link |-> ""], [marks |-> {}, link |-> "u"]}
CellRuns ==
    UNION {[1..n -> {FormattedRun(t, s) : t \in RunTexts, s \in RunStyles}] :
              n \in 0..MaxRuns}
CellStarts == {2, 5}

\* The cells of the tables of TableDocs, as a read of the document gives them.
SourceCells ==
    UNION {UNION {{extractTableElements(documentsGet(flat))[1].table
                       .tableRows[r].tableCells[c] :
                     c \in 1..Len(extractTableElements(documentsGet(flat))[1].table
                                     .tableRows[r].tableCells)} :
                  r \in 1..Len(extractTableElements(documentsGet(flat))[1].table
                                  .tableRows)} :
           flat \in TableDocs}

\* A body with one more section break, after its first k elements.
withSectionBreak(body, k) ==
    SubSeq(body, 1, k) \o <<SectionBreak>> \o SubSeq(body, k + 1, Len(body))

\* Documents a snapshot is taken of: those of SnapDocs, and one with two
\* paragraphs before a table.
SnapshotFlats ==
    SnapDocs \cup {<<"a", NL, "b", NL>> \o tableTokens(<< << <<<<"c">>>> >> >>)
                                       \o <<"z", NL>>}

\* Snapshots of these documents, and of the same documents with a section
\* break further down the body.
BatchSnapshots ==
    UNION {{captureSnapshot(flat, 1, "snapshot")}
           \cup {[captureSnapshot(flat, 1, "snapshot") EXCEPT
                     !.body = withSectionBreak(@, k)] :
                   k \in 1..Len(documentsGet(flat))} :
           flat \in SnapshotFlats}

\* A table of one row with a cell of every kind: the cell choices, a cell
\* whose first paragraph holds only an image, and one that starts with an
\* image.
FormattedCells ==
    CellChoices \o << <<<<"i1">>, <<"b">>>>, <<<<"i2", "a">>>> >>

FormattedDoc == docWithTable(<<FormattedCells>>)

\* The runs batchEditTableCellsFormatted is given for a cell: at least one.
FormattedRuns ==
    {<<FormattedRun(<<"x">>, [marks |-> {"bold"}, link |-> ""])>>,
     <<FormattedRun(<<"x">>, NoTextStyle),
       FormattedRun(<<"y", "x">>, [marks |-> {}, link |-> "u"])>>,
     <<FormattedRun(<<"x", "y">>, [marks |-> {"italic"}, link |-> ""]),
       FormattedRun(<<>>, [marks |-> {"bold"}, link |-> ""]),
       FormattedRun(<<"y">>, [marks |-> {"bold"}, link |-> ""])>>,
     <<FormattedRun(<<"x">>, NoTextStyle)>>}

\* One cell, or a cell and the image-first cell after it.
FormattedEdits ==
    {<<[row |-> 0, col |-> c, runs |-> runs]>> :
        c \in 0..(Len(FormattedCells) - 1), runs \in FormattedRuns}
    \cup {<<[row |-> 0, col |-> c, runs |-> runs],
            [row |-> 0, col |-> Len(FormattedCells) - 1, runs |-> runs]>> :
        c \in 0..(Len(FormattedCells) - 2), runs \in FormattedRuns}

InitBatch ==
    /\ TableIdle
    /\ SnapIdle
    /\ MarkdownIdle
    /\ expired \in ExpiredImages
    /\ others = "idle"
    /\ calls = NoCalls
    /\ bout = NoBatchOutput
    /\ \/ \E source \in BatchSources, target \in BatchTargets :
             bgiven = [NoBatchInput EXCEPT !.kind = "paragraphs",
                                           !.source = source, !.target = target]
       \/ /\ expired = {}
          /\ \E runs \in CellRuns, cellStartIndex \in CellStarts :
                bgiven = [NoBatchInput EXCEPT !.kind = "cell", !.runs = runs,
                                              !.cellStartIndex = cellStartIndex]
       \/ /\ expired = {}
          /\ \E cell \in SourceCells :
                bgiven = [NoBatchInput EXCEPT !.kind = "cellContent", !.cell = cell]
       \/ /\ expired = {}
          /\ \E cells \in FormattedEdits :
                bgiven = [NoBatchInput EXCEPT
                            !.kind = "cells",
                            !.source = Remote(FormattedDoc, plainStyles(FormattedDoc)),
                            !.cells = cells]
       \/ /\ expired = {}
          /\ \E snapshot \in BatchSnapshots, target \in BatchTargets :
                bgiven = [NoBatchInput EXCEPT !.kind = "snapshot",
                                              !.snapshot = snapshot,
                                              !.target = target]

paragraphsOf(remote) ==
    SelectSeq(documentsGetStyled(remote.flat, remote.styles),
              LAMBDA el : el.kind = "paragraph")

batchOutput(name, outcome) ==
    [name |-> name, paraData |-> outcome.paraData,
     insertPoint |-> outcome.insertPoint, planned |-> outcome.planned,
     starts |-> outcome.starts, requests |-> outcome.requests,
     inserted |-> outcome.inserted, done |-> outcome.done,
     content |-> NoBatchOutput.content, groups |-> NoBatchOutput.groups,
     restore |-> NoBatchOutput.restore]

callRestoreParagraphBatch ==
    /\ bgiven.kind = "paragraphs"
    /\ bout.name = "none"
    /\ UNCHANGED <<tableVars, snapVars, mdVars, expired, others, calls, bgiven>>
    /\ bout' = batchOutput("restoreParagraphBatch",
                   restoreParagraphBatchStyled(
                       Remote(bgiven.target, plainStyles(bgiven.target)),
                       paragraphsOf(bgiven.source),
                       inlineObjectsOf(bgiven.source.flat)))

callCopyParagraphBatch ==
    /\ bgiven.kind = "paragraphs"
    /\ bout.name = "none"
    /\ UNCHANGED <<tableVars, snapVars, mdVars, expired, others, calls, bgiven>>
    /\ bout' = batchOutput("copyParagraphBatch",
                   copyParagraphBatch(
                       Remote(bgiven.target, plainStyles(bgiven.target)),
                       paragraphsOf(bgiven.source),
                       inlineObjectsOf(bgiven.source.flat)))

callBuildFormattedCellFormatRequests ==
    /\ bgiven.kind = "cell"
    /\ bout.name = "none"
    /\ UNCHANGED <<tableVars, snapVars, mdVars, expired, others, calls, bgiven>>
    /\ bout' = [NoBatchOutput EXCEPT
                   !.name = "buildFormattedCellFormatRequests",
                   !.insertPoint = bgiven.cellStartIndex,
                   !.requests = buildFormattedCellFormatRequests(
                                    bgiven.cellStartIndex, bgiven.runs)]

callExtractFormattedCellContent ==
    /\ bgiven.kind = "cellContent"
    /\ bout.name = "none"
    /\ UNCHANGED <<tableVars, snapVars, mdVars, expired, others, calls, bgiven>>
    /\ bout' = [NoBatchOutput EXCEPT
                   !.name = "extractFormattedCellContent",
                   !.content = extractFormattedCellContent(bgiven.cell, ImageIds)]

callRestoreDocumentContent ==
    /\ bgiven.kind = "snapshot"
    /\ bout.name = "none"
    /\ UNCHANGED <<tableVars, snapVars, mdVars, expired, others, calls, bgiven>>
    /\ bout' = [NoBatchOutput EXCEPT
                   !.name = "restoreDocumentContent",
                   !.groups = groupElements(bgiven.snapshot.body, 1, <<>>, <<>>),
                   !.restore = restoreDocumentContent(bgiven.target, bgiven.snapshot)]

callBatchEditTableCellsFormatted ==
    /\ bgiven.kind = "cells"
    /\ bout.name = "none"
    /\ UNCHANGED <<tableVars, snapVars, mdVars, expired, others, calls, bgiven>>
    /\ bout' = [NoBatchOutput EXCEPT
                   !.name = "batchEditTableCellsFormatted",
                   !.planned = batchEditTableCellsFormatted(bgiven.source, 0,
                                                            bgiven.cells).ok,
                   !.requests = batchEditTableCellsFormatted(bgiven.source, 0,
                                    bgiven.cells).formatRequests,
                   !.inserted = batchEditTableCellsFormatted(bgiven.source, 0,
                                    bgiven.cells).inserted,
                   !.done = batchEditTableCellsFormatted(bgiven.source, 0,
                                bgiven.cells).done]

NextBatch ==
    \/ callRestoreParagraphBatch
    \/ callCopyParagraphBatch
    \/ callBuildFormattedCellFormatRequests
    \/ callExtractFormattedCellContent
    \/ callRestoreDocumentContent
    \/ callBatchEditTableCellsFormatted

SpecBatch == InitBatch /\ [][NextBatch]_vars

\* ------------------------------------------------------------------------
\* undoLastChange and redoLastChange, call by call and await by await
\* ------------------------------------------------------------------------
MaxCalls == 3

StackDocs == <<<<NL>>, <<"b", NL>>, <<"a", "i1", NL>>>>

InitConcurrent ==
    /\ TableIdle
    /\ MarkdownIdle
    /\ BatchIdle
    /\ expired = {}
    /\ others = "idle"
    /\ calls = NoCalls
    /\ doc \in {<<"a", NL>>, <<"a", NL, "b", "c", NL>>}
    /\ \E n \in 0..2, m \in 0..1 :
          /\ n + m > 0
          /\ undoStack = [k \in 1..n |-> captureSnapshot(StackDocs[k], k, "snapshot")]
          /\ redoStack = [k \in 1..m |->
                            captureSnapshot(StackDocs[n + k], n + k, "pre-undo state")]
          /\ nextId = n + m + 1
    /\ last = NoOutcome
    /\ pre = [undoStack |-> undoStack, redoStack |-> redoStack, doc |-> doc]
    /\ created = <<>>
    /\ budget = [creates |-> 0, moves |-> MaxCalls, edits |-> 0]

\* stack.pop() of an array: undefined, and the array left empty, when it is
\* empty.
popOrUndefined(stack) ==
    IF stack = <<>>
    THEN [snapshot |-> NoSnapshot, rest |-> <<>>, isUndefined |-> TRUE]
    ELSE [snapshot |-> pop(stack).snapshot, rest |-> pop(stack).rest,
          isUndefined |-> FALSE]

\* The call up to its first await: the emptiness check.
startedCall(op, stack, alone) ==
    [IdleCaller EXCEPT
        !.op = op,
        !.pc = IF stack = <<>> THEN "done" ELSE "reading",
        !.status = IF stack = <<>> THEN "EmptyHistory" ELSE "none",
        !.before = [undoStack |-> undoStack, redoStack |-> redoStack],
        !.alone = alone]

beginCall(c, op) ==
    /\ calls[c].pc = "idle"
    /\ budget.moves > 0
    /\ budget' = [budget EXCEPT !.moves = @ - 1]
    /\ calls' = [d \in Callers |->
                    IF d = c
                    THEN startedCall(op,
                            IF op = "undoLastChange" THEN undoStack ELSE redoStack,
                            calls[c].alone /\ \A e \in Callers : calls[e].pc = "idle")
                    ELSE IF calls[d].pc = "idle" THEN calls[d]
                    ELSE [calls[d] EXCEPT !.alone = FALSE]]
    /\ UNCHANGED <<tableVars, mdVars, batchVars, expired, others>>
    /\ UNCHANGED <<doc, undoStack, redoStack, nextId, last, pre, created>>

\* await docs.documents.get(...) throws.
readFails(c) ==
    /\ calls[c].pc = "reading"
    /\ calls' = [calls EXCEPT ![c].pc = "done", ![c].status = "ReadFailed"]
    /\ UNCHANGED <<tableVars, mdVars, batchVars, expired, others>>
    /\ UNCHANGED <<doc, undoStack, redoStack, nextId, last, pre, created, budget>>

\* The read returns: the capture is pushed, the other stack popped, and the
\* restore started.
readReturns(c) ==
    /\ calls[c].pc = "reading"
    /\ nextId' = nextId + 1
    /\ IF calls[c].op = "undoLastChange"
       THEN /\ redoStack' = Append(redoStack,
                                   captureSnapshot(doc, nextId, "pre-undo state"))
            /\ undoStack' = popOrUndefined(undoStack).rest
            /\ calls' = [calls EXCEPT
                  ![c].pc = "restoring",
                  ![c].captured = captureSnapshot(doc, nextId, "pre-undo state"),
                  ![c].popped = popOrUndefined(undoStack).snapshot,
                  ![c].isUndefined = popOrUndefined(undoStack).isUndefined]
       ELSE /\ undoStack' = Append(undoStack,
                                   captureSnapshot(doc, nextId, "pre-redo state"))
            /\ redoStack' = popOrUndefined(redoStack).rest
            /\ calls' = [calls EXCEPT
                  ![c].pc = "restoring",
                  ![c].captured = captureSnapshot(doc, nextId, "pre-redo state"),
                  ![c].popped = popOrUndefined(redoStack).snapshot,
                  ![c].isUndefined = popOrUndefined(redoStack).isUndefined]
    /\ UNCHANGED <<tableVars, mdVars, batchVars, expired, others>>
    /\ UNCHANGED <<doc, last, pre, created, budget>>

\* await restoreDocumentContent(...) returns, or throws on snapshot.body of
\* undefined after it has cleared the document.
restoreReturns(c) ==
    /\ calls[c].pc = "restoring"
    /\ IF calls[c].isUndefined
       THEN /\ doc' = clearDocument(doc, lastEndIndex(documentsGet(doc))).doc
            /\ calls' = [calls EXCEPT ![c].pc = "done", ![c].status = "TypeError"]
       ELSE /\ doc' = restoreDocumentContent(doc, calls[c].popped).doc
            /\ calls' = [calls EXCEPT
                  ![c].pc = "done",
                  ![c].status = IF restoreDocumentContent(doc, calls[c].popped).ok
                                THEN "ok" ELSE "RestoreFailed"]
    /\ UNCHANGED <<tableVars, mdVars, batchVars, expired, others>>
    /\ UNCHANGED <<undoStack, redoStack, nextId, last, pre, created, budget>>

\* A call of the restore pipeline throws: before anything is written, or
\* after the document has been cleared.
restoreFails(c) ==
    /\ calls[c].pc = "restoring"
    /\ ~calls[c].isUndefined
    /\ doc' \in {doc, clearDocument(doc, lastEndIndex(documentsGet(doc))).doc}
    /\ calls' = [calls EXCEPT ![c].pc = "done", ![c].status = "RestoreFailed"]
    /\ UNCHANGED <<tableVars, mdVars, batchVars, expired, others>>
    /\ UNCHANGED <<undoStack, redoStack, nextId, last, pre, created, budget>>

\* The call has returned or thrown; the caller may call again.
callReturns(c) ==
    /\ calls[c].pc = "done"
    /\ calls' = [calls EXCEPT ![c] = [IdleCaller EXCEPT !.alone = calls[c].alone]]
    /\ UNCHANGED <<tableVars, mdVars, batchVars, expired, others>>
    /\ UNCHANGED <<doc, undoStack, redoStack, nextId, last, pre, created, budget>>

NextConcurrent ==
    \/ \E c \in Callers, op \in {"undoLastChange", "redoLastChange"} : beginCall(c, op)
    \/ \E c \in Callers : readFails(c)
    \/ \E c \in Callers : readReturns(c)
    \/ \E c \in Callers : restoreReturns(c)
    \/ \E c \in Callers : restoreFails(c)
    \/ \E c \in Callers : callReturns(c)

SpecConcurrent == InitConcurrent /\ [][NextConcurrent]_vars

\* ------------------------------------------------------------------------
\* Properties of the snapshot tools
\* ------------------------------------------------------------------------
snapshotIds(stack) == [k \in 1..Len(stack) |-> stack[k].id]

succeeded(op) == last.op = op /\ last.status = "ok"

\* C1: after a successful createSnapshot the redo stack is empty, whatever it
\* held before, and the snapshot the call returned is the top of the undo stack.
C1_CreateClearsRedo ==
    succeeded("createSnapshot")
    => /\ redoStack = <<>>
       /\ Len(undoStack) > 0
       /\ undoStack[Len(undoStack)] = last.snapshot

C1_Witness ==
    /\ succeeded("createSnapshot")
    /\ Len(pre.redoStack) > 0
    /\ Len(pre.undoStack) > 0

\* C2: a successful undoLastChange moves exactly one entry: the undo stack
\* loses its top and nothing else, that top is the snapshot restored and
\* returned, and the redo stack gains, on top and with nothing else changed,
\* a capture of the live document as it was before the restore.
C2_UndoMovesOneEntry ==
    succeeded("undoLastChange")
    => /\ Len(pre.undoStack) > 0
       /\ undoStack = SubSeq(pre.undoStack, 1, Len(pre.undoStack) - 1)
       /\ last.snapshot = pre.undoStack[Len(pre.undoStack)]
       /\ Len(redoStack) = Len(pre.redoStack) + 1
       /\ SubSeq(redoStack, 1, Len(pre.redoStack)) = pre.redoStack
       /\ redoStack[Len(redoStack)].body = documentsGet(pre.doc)
       /\ redoStack[Len(redoStack)].inlineObjects = inlineObjectsOf(pre.doc)
       /\ redoStack[Len(redoStack)].label = "pre-undo state"

C2_Witness ==
    /\ succeeded("undoLastChange")
    /\ Len(pre.undoStack) >= 2
    /\ Len(pre.redoStack) >= 1

\* C3: after more than MAX_SNAPSHOTS consecutive createSnapshot calls the undo
\* stack holds exactly the MAX_SNAPSHOTS most recently created snapshots, in
\* creation order, and listSnapshots does not return the first one created.
C3_FifoEviction ==
    Len(created) > MAX_SNAPSHOTS
    => /\ snapshotIds(undoStack)
            = SubSeq(created, Len(created) - MAX_SNAPSHOTS + 1, Len(created))
       /\ \A k \in 1..Len(listSnapshots(undoStack, redoStack)) :
            listSnapshots(undoStack, redoStack)[k].id # created[1]

C3_Witness ==
    /\ Len(created) = MAX_SNAPSHOTS + 1
    /\ last.op = "createSnapshot"

\* C4: the undo stack never holds more than MAX_SNAPSHOTS snapshots, the two
\* stacks together never hold more than MAX_SNAPSHOTS, and a successful undo
\* or redo leaves the total unchanged.
C4_UndoStackBounded ==
    /\ Len(undoStack) <= MAX_SNAPSHOTS
    /\ Len(undoStack) + Len(redoStack) <= MAX_SNAPSHOTS
    /\ (succeeded("undoLastChange") \/ succeeded("redoLastChange"))
       => Len(undoStack) + Len(redoStack)
            = Len(pre.undoStack) + Len(pre.redoStack)

C4_Witness ==
    /\ succeeded("redoLastChange")
    /\ Len(pre.undoStack) = MAX_SNAPSHOTS - 1
    /\ Len(undoStack) = MAX_SNAPSHOTS

\* C5: undoLastChange on an empty undo stack, and redoLastChange on an empty
\* redo stack, raise the empty-history error before any remote read or write
\* and leave both stacks and the document as they were.
C5_EmptyHistoryBeforeRemote ==
    /\ (last.op = "undoLastChange" /\ Len(pre.undoStack) = 0)
       \/ (last.op = "redoLastChange" /\ Len(pre.redoStack) = 0)
       => /\ last.status = "EmptyHistory"
          /\ last.reads = 0
          /\ last.writes = 0
          /\ undoStack = pre.undoStack
          /\ redoStack = pre.redoStack
          /\ doc = pre.doc
    /\ last.status = "EmptyHistory"
       => \/ last.op = "undoLastChange" /\ Len(pre.undoStack) = 0
          \/ last.op = "redoLastChange" /\ Len(pre.redoStack) = 0

C5_Witness ==
    /\ last.op = "undoLastChange"
    /\ last.status = "EmptyHistory"
    /\ Len(redoStack) > 0

onlyParagraphs(body) ==
    \A k \in 1..Len(body) : body[k].kind \in {"sectionBreak", "paragraph"}

\* The text of a paragraph: its text runs joined, without the newline that ends it.
paragraphText(paragraph) ==
    SelectSeq(flatten([k \in 1..Len(paragraph.elements) |->
                  paragraph.elements[k].content]),
              LAMBDA ch : ch # NL)

paragraphTexts(body) ==
    LET paragraphs == SelectSeq(body, LAMBDA el : el.kind = "paragraph")
    IN [k \in 1..Len(paragraphs) |-> paragraphText(paragraphs[k])]

\* C6: after a successful undoLastChange that restored a snapshot made only of
\* paragraphs, the paragraph texts read back from the document are exactly the
\* snapshot's: the same number of paragraphs, the same texts, no extra
\* trailing empty paragraph.
C6_UndoRestoresParagraphTexts ==
    succeeded("undoLastChange") /\ onlyParagraphs(last.snapshot.body)
    => paragraphTexts(documentsGet(doc)) = paragraphTexts(last.snapshot.body)

\* ------------------------------------------------------------------------
\* Properties of the table tools
\* ------------------------------------------------------------------------
positionsOf(flat, tok) == sortedSeq({p \in 1..Len(flat) : flat[p] = tok})

\* The cell (row, col), 0-based, of the one table of flat, found by counting
\* the row and cell marks: first and last position of its content.
cellSpan(flat, row, col) ==
    LET rs == positionsOf(flat, RowStart)
        e == positionsOf(flat, TableEnd)[1]
        rowLast == IF row + 1 < Len(rs) THEN rs[row + 2] - 1 ELSE e - 1
        cs == sortedSeq({p \in rs[row + 1]..rowLast : flat[p] = CellStart})
    IN [first |-> cs[col + 1] + 1,
        last |-> IF col + 1 < Len(cs) THEN cs[col + 2] - 1 ELSE rowLast]

rowsIn(flat) == Len(positionsOf(flat, RowStart))

cellsInRow(flat, row) ==
    LET rs == positionsOf(flat, RowStart)
        e == positionsOf(flat, TableEnd)[1]
        rowLast == IF row + 1 < Len(rs) THEN rs[row + 2] - 1 ELSE e - 1
    IN Cardinality({p \in rs[row + 1]..rowLast : flat[p] = CellStart})

isCellOf(flat, row, col) ==
    /\ row >= 0 /\ row < rowsIn(flat)
    /\ col >= 0 /\ col < cellsInRow(flat, row)

isText(tok) == tok \notin ImageIds /\ tok # NL

\* Start of the paragraph that holds position p of a cell's content.
paragraphStart(flat, span, p) ==
    LET before == {q \in span.first..(p - 1) : flat[q] = NL}
    IN IF before = {} THEN span.first
       ELSE (CHOOSE q \in before : \A q2 \in before : q2 <= q) + 1

paragraphEnd(flat, span, p) == Min({q \in p..span.last : flat[q] = NL})

\* Positions of a cell that belong to a paragraph holding some text, the
\* paragraph's terminating newline excepted.
textBearing(flat, span) ==
    {p \in span.first..span.last :
        /\ flat[p] # NL
        /\ \E q \in paragraphStart(flat, span, p)..paragraphEnd(flat, span, p) :
              isText(flat[q])}

intendedInsertAt(flat, span) ==
    IF textBearing(flat, span) = {} THEN span.first
    ELSE Min(textBearing(flat, span))

\* The k edits made at once, in the numbering of the document before them.
intendedDoc(flat, edits) ==
    LET spans == [k \in 1..Len(edits) |-> cellSpan(flat, edits[k].row, edits[k].col)]
        deleted == UNION {textBearing(flat, spans[k]) : k \in 1..Len(edits)}
        inserted(i) ==
            LET ks == {k \in 1..Len(edits) : intendedInsertAt(flat, spans[k]) = i}
            IN IF ks = {} THEN <<>> ELSE edits[CHOOSE k \in ks : TRUE].text
    IN flatten([i \in 1..Len(flat) |->
            inserted(i) \o (IF i \in deleted THEN <<>> ELSE <<flat[i]>>)])

distinctCells(edits) ==
    \A j, k \in 1..Len(edits) :
        j # k => (edits[j].row # edits[k].row \/ edits[j].col # edits[k].col)

validEdits(flat, tableIndex, edits) ==
    /\ tableIndex = 0
    /\ distinctCells(edits)
    /\ \A k \in 1..Len(edits) : isCellOf(flat, edits[k].row, edits[k].col)

\* C7: a batch edit of pairwise distinct cells, its requests applied strictly
\* in order (in one call or in chunks of 50) to a document in which every
\* delete and insert shifts what follows, leaves exactly the document in
\* which each edited cell lost its text-bearing ranges and got its new text
\* at its original lowest text offset, and nothing else changed.
C7_DescendingOrderSafety ==
    (tcall.name = "batchEditTableCells"
        /\ validEdits(tpre, tcall.tableIndex, tcall.edits))
    => /\ tout.ok
       /\ tdoc = intendedDoc(tpre, tcall.edits)
       /\ executeBatchUpdate(tpre, tout.requests) = tdoc

C7_Witness ==
    /\ tcall.name = "batchEditTableCells"
    /\ validEdits(tpre, tcall.tableIndex, tcall.edits)
    /\ tout.apiCalls >= 2
    /\ Len(tout.requests) > BATCH_CHUNK_SIZE
    /\ tcall.edits[1].col < tcall.edits[2].col
    /\ tdoc # tpre

\* A cell made of a text paragraph followed by an image-only paragraph.
isTextThenImage(flat, span) ==
    /\ span.last - span.first >= 3
    /\ flat[span.last] = NL
    /\ flat[span.last - 1] \in ImageIds
    /\ flat[span.last - 2] = NL
    /\ \A p \in span.first..(span.last - 3) : isText(flat[p])

\* C8: editing (alone or in a batch of distinct cells) a cell made of a text
\* paragraph and an image-only paragraph emits no delete range that meets the
\* image-only paragraph, and afterwards the cell holds the new text followed
\* by the same image paragraph.
C8_ImageParagraphKept ==
    \A k \in 1..Len(tcall.edits) :
        (/\ tcall.name \in {"editTableCell", "batchEditTableCells"}
         /\ validEdits(tpre, tcall.tableIndex, tcall.edits)
         /\ isTextThenImage(tpre, cellSpan(tpre, tcall.edits[k].row, tcall.edits[k].col)))
        => LET before == cellSpan(tpre, tcall.edits[k].row, tcall.edits[k].col)
               after == cellSpan(tdoc, tcall.edits[k].row, tcall.edits[k].col)
               cell == getCellElement(
                           extractTableElements(documentsGet(tdoc))[1].table,
                           tcall.edits[k].row, tcall.edits[k].col)
           IN /\ tout.ok
              /\ \A j \in 1..Len(tout.requests) :
                    tout.requests[j].kind = "deleteContentRange"
                    => \/ tout.requests[j].endIndex <= before.last - 1
                       \/ tout.requests[j].startIndex > before.last
              /\ SubSeq(tdoc, after.first, after.last)
                    = tcall.edits[k].text \o <<NL, tpre[before.last - 1], NL>>
              /\ cell.ok /\ cellHasImage(cell.value)

C8_Witness ==
    /\ tcall.name = "editTableCell"
    /\ validEdits(tpre, tcall.tableIndex, tcall.edits)
    /\ isTextThenImage(tpre, cellSpan(tpre, tcall.edits[1].row, tcall.edits[1].col))
    /\ tcall.edits[1].text # <<>>
    /\ \E j \in 1..Len(tout.requests) : tout.requests[j].kind = "deleteContentRange"
    /\ tdoc # tpre

\* C9 (the statement of the claim; the code breaks it): no deleteContentRange
\* built by buildEditCellRequests covers the index of an inline image.
C9_NoDeleteCoversImage ==
    (tcall.name = "editTableCell" /\ tout.ok)
    => \A j \in 1..Len(tout.requests) :
          tout.requests[j].kind = "deleteContentRange"
          => \A p \in tout.requests[j].startIndex..(tout.requests[j].endIndex - 1) :
                tpre[p] \notin ImageIds

\* C10: a table index outside the document's tables, a row index outside the
\* table and a column index outside the addressed row each raise the
\* out-of-range error that reports the index and the count, and no cell is
\* returned; an index inside returns the addressed cell.
C10_OutOfRangeRaises ==
    tcall.name = "getCellElement"
    => LET ti == tcall.tableIndex
           row == tcall.edits[1].row
           col == tcall.edits[1].col
           tables == Cardinality({p \in 1..Len(tpre) : tpre[p] = TableStart})
       IN IF ti < 0 \/ ti >= tables
          THEN /\ ~tout.ok /\ tout.cell = <<>>
               /\ tout.error = UserError("TableIndexOutOfRange", ti, tables, 0)
          ELSE IF row < 0 \/ row >= rowsIn(tpre)
          THEN /\ ~tout.ok /\ tout.cell = <<>>
               /\ tout.error = UserError("RowOutOfRange", row, rowsIn(tpre), row)
          ELSE IF col < 0 \/ col >= cellsInRow(tpre, row)
          THEN /\ ~tout.ok /\ tout.cell = <<>>
               /\ tout.error = UserError("ColumnOutOfRange", col,
                                         cellsInRow(tpre, row), row)
          ELSE /\ tout.ok
               /\ tout.cell.startIndex = cellSpan(tpre, row, col).first - 1

C10_Witness ==
    /\ tcall.name = "getCellElement"
    /\ tcall.tableIndex = 0
    /\ rowsIn(tpre) = 2
    /\ tcall.edits[1].row = 4
    /\ ~tout.ok
    /\ tout.error.count = 2

\* ------------------------------------------------------------------------
\* Properties of the other index-taking table helpers
\* ------------------------------------------------------------------------
liveTables(flat) == extractTableElements(documentsGet(flat))

tableIndexOutside(flat, tableIndex) ==
    tableIndex < 0 \/ tableIndex >= Len(liveTables(flat))

\* Some row of the table has no cell at searchColumn.
columnOutside(table, searchColumn) ==
    \E r \in 1..Len(table.tableRows) :
        searchColumn < 0 \/ searchColumn >= Len(table.tableRows[r].tableCells)

\* The range names a row (or column) the table of that many does not have.
rangeOutside(range, total) ==
    /\ range.given
    /\ \/ range.start < 0
       \/ range.start >= total
       \/ range.spanGiven /\ range.start + range.span > total

OutOfRangeKinds ==
    {"TableIndexOutOfRange", "RowOutOfRange", "ColumnOutOfRange",
     "InsertBelowOutOfRange"}

raisedOutOfRange == ~tout.ok /\ tout.error.kind \in OutOfRangeKinds

\* C11: every table helper called with a table, row or column index outside
\* the live table raises an out-of-range error: findTableRows with a search
\* column some row does not have, buildUpdateTableCellStyleRequests with a row
\* or column range outside the table, buildAddTableRowRequest with a row
\* outside the table, and each of them with a table index outside the document.
C11_OutOfRangeAlwaysRaises ==
    /\ tcall.name \in {"findTableRows", "buildAddTableRowRequest",
                       "buildUpdateTableCellStyleRequests"}
       /\ tableIndexOutside(tpre, tcall.tableIndex)
       => raisedOutOfRange
    /\ tcall.name = "buildAddTableRowRequest"
       /\ ~tableIndexOutside(tpre, tcall.tableIndex)
       /\ \/ tcall.edits[1].row < 0
          \/ tcall.edits[1].row
               >= Len(liveTables(tpre)[tcall.tableIndex + 1].table.tableRows)
       => raisedOutOfRange
    /\ tcall.name = "findTableRows"
       /\ ~tableIndexOutside(tpre, tcall.tableIndex)
       /\ columnOutside(liveTables(tpre)[tcall.tableIndex + 1].table,
                        tcall.edits[1].col)
       => raisedOutOfRange
    /\ tcall.name = "buildUpdateTableCellStyleRequests"
       /\ tcall.fields # {}
       /\ ~tableIndexOutside(tpre, tcall.tableIndex)
       /\ \/ rangeOutside(tcall.rowRange,
                           liveTables(tpre)[tcall.tableIndex + 1].table.rows)
          \/ rangeOutside(tcall.colRange,
                           liveTables(tpre)[tcall.tableIndex + 1].table.columns)
       => raisedOutOfRange

\* ------------------------------------------------------------------------
\* Properties of the markdown converter and its orchestrator
\* ------------------------------------------------------------------------
converted ==
    mcall.name = "convertMarkdownToRequestsWithTables" /\ mout.ok

\* The first line of markdown that opens a table, 0 when there is none.
firstTableLine(markdown) ==
    LET S == {k \in 1..Len(markdown) : opensTable(markdown, k)}
    IN IF S = {} THEN 0 ELSE Min(S)

lastTableLine(markdown) == runEnd(markdown, firstTableLine(markdown) + 1, "row")

\* The header row and the body rows of the first table, each row cut or
\* filled with empty cells to the number of columns of the header.
expectedRow(cells, columns) ==
    [c \in 1..columns |-> IF c <= Len(cells) THEN cells[c] ELSE <<>>]

expectedData(markdown) ==
    LET k == firstTableLine(markdown)
        rows == <<k>> \o [i \in 1..(lastTableLine(markdown) - k - 1) |-> k + 1 + i]
    IN [r \in 1..Len(rows) |->
            expectedRow(markdown[rows[r]].cells, Len(markdown[k].cells))]

insertTablePositions(requests) ==
    {j \in 1..Len(requests) : requests[j].kind = "insertTable"}

RECURSIVE insertedLength(_, _)
insertedLength(requests, j) ==
    IF j = 0 THEN 0
    ELSE insertedLength(requests, j - 1)
         + (IF requests[j].kind = "insertText" THEN Len(requests[j].text) ELSE 0)

\* The insertTable request is the last insert request, and it sits at
\* startIndex plus the length of the text inserted before it.
tableRequestPlaced(requests, startIndex) ==
    /\ Cardinality(insertTablePositions(requests)) = 1
    /\ LET j == Min(insertTablePositions(requests))
       IN /\ \A i \in 1..(j - 1) : requests[i].kind = "insertText"
          /\ \A i \in (j + 1)..Len(requests) : requests[i].kind \in StyleRequests
          /\ requests[j].startIndex = startIndex + insertedLength(requests, j - 1)

textBeforeAndAfterTable(markdown) ==
    /\ firstTableLine(markdown) > 1
    /\ \E k \in 1..(firstTableLine(markdown) - 1) : markdown[k].kind # "blank"
    /\ \E k \in (lastTableLine(markdown) + 1)..Len(markdown) :
            markdown[k].kind # "blank"

\* C12: a call of convertMarkdownToRequestsWithTables on a markdown text with
\* a table returns exactly one insertTable request, the last of the insert
\* requests and placed at startIndex plus the length of all text inserted
\* before it; exactly one PendingTableFill, whose data is the header row
\* followed by the body rows, every row filled up to the table's columns;
\* postTableContent equal to the trimmed markdown after the table; and
\* requests that owe nothing to the lines after the table.  No call returns
\* more than one PendingTableFill.
C12_TableBoundarySplit ==
    converted =>
        /\ Len(mout.result.pendingTableFills) <= 1
        /\ firstTableLine(mcall.markdown) > 0 =>
            /\ tableRequestPlaced(mout.result.requests, mcall.startIndex)
            /\ Len(mout.result.pendingTableFills) = 1
            /\ mout.result.pendingTableFills[1].data = expectedData(mcall.markdown)
            /\ mout.result.pendingTableFills[1].rows
                    = Len(expectedData(mcall.markdown))
            /\ mout.result.pendingTableFills[1].columns
                    = Len(mcall.markdown[firstTableLine(mcall.markdown)].cells)
            /\ mout.result.pendingTableFills[1].insertIndex
                    = mout.result.requests[
                        Min(insertTablePositions(mout.result.requests))].startIndex
            /\ mout.result.postTableContent
                    = trimLines(SubSeq(mcall.markdown,
                                       lastTableLine(mcall.markdown) + 1,
                                       Len(mcall.markdown)))
            /\ mout.result.requests
                    = convertMarkdownToRequestsWithTables(
                        SubSeq(mcall.markdown, 1, lastTableLine(mcall.markdown)),
                        mcall.startIndex).value.requests

\* A text, a table with a body row shorter than its header, and a text
\* after it have been converted in one call.
C12_Witness ==
    /\ converted
    /\ textBeforeAndAfterTable(mcall.markdown)
    /\ \E k \in (firstTableLine(mcall.markdown) + 2)..lastTableLine(mcall.markdown) :
            Len(mcall.markdown[k].cells)
                < Len(mcall.markdown[firstTableLine(mcall.markdown)].cells)
    /\ Len(mout.result.pendingTableFills) = 1
    /\ mout.result.postTableContent # <<>>

\* ------------------------------------------------------------------------
\* Properties of the table and paragraph restore
\* ------------------------------------------------------------------------
cellImagesOf(cell) ==
    UNION {{cell.content[p].elements[k].inlineObjectId :
                k \in {j \in 1..Len(cell.content[p].elements) :
                          cell.content[p].elements[j].kind = "inlineObjectElement"}} :
           p \in 1..Len(cell.content)}

\* What a reader sees in each cell of a table: its text and its images.
cellsSeen(table) ==
    [r \in 1..Len(table.tableRows) |->
        [c \in 1..Len(table.tableRows[r].tableCells) |->
            [text |-> getCellText(table.tableRows[r].tableCells[c]),
             images |-> cellImagesOf(table.tableRows[r].tableCells[c])]]]

tablesSeen(body) ==
    [k \in 1..Len(extractTableElements(body)) |->
        cellsSeen(extractTableElements(body)[k].table)]

\* C13: a table restored from its extracted cell contents (text by
\* buildBatchEditCellRequests, formatting by buildFormattedCellFormatRequests,
\* images by buildBatchInsertImageRequests) has, cell by cell, the text and the
\* images of the table the contents were extracted from.
C13_TableRoundTrip ==
    (succeeded("undoLastChange") /\ Len(extractTableElements(last.snapshot.body)) > 0)
    => tablesSeen(documentsGet(doc)) = tablesSeen(last.snapshot.body)

\* ------------------------------------------------------------------------
\* Properties of the markdown round trip
\* ------------------------------------------------------------------------
Digits == {"0", "1", "2", "3", "4", "5", "6", "7", "8", "9"}

\* A markdown text without its whitespace, every digit read as "1": two
\* texts with the same squeeze differ in whitespace and list numbering only.
squeeze(text) ==
    [k \in 1..Len(SelectSeq(text, LAMBDA ch : ch \notin Whitespace)) |->
        IF SelectSeq(text, LAMBDA ch : ch \notin Whitespace)[k] \in Digits
        THEN "1" ELSE SelectSeq(text, LAMBDA ch : ch \notin Whitespace)[k]]

\* The rule convertDocsJsonToMarkdown writes for the section break that
\* opens every document is not part of what was written.
withoutRule(text) ==
    IF Len(text) >= 3 /\ SubSeq(text, 1, 3) = <<"-", "-", "-">>
    THEN SubSeq(text, 4, Len(text)) ELSE text

renderSpan(span) ==
    linked(struck(emphasised(span.text, [marks |-> span.marks, link |-> span.href]),
                  [marks |-> span.marks, link |-> span.href]),
           [marks |-> span.marks, link |-> span.href])

renderSpans(spans) == flatten([k \in 1..Len(spans) |-> renderSpan(spans[k])])

\* A line of markdown as it is written in a markdown file.
renderLine(line) ==
    CASE line.kind = "heading" -> hashes(line.level) \o <<" ">> \o renderSpans(line.spans)
      [] line.kind = "bullet" -> <<"-", " ">> \o renderSpans(line.spans)
      [] line.kind = "ordered" -> <<"1", ".", " ">> \o renderSpans(line.spans)
      [] line.kind = "text" -> renderSpans(line.spans)
      [] OTHER -> <<>>

renderMarkdown(markdown) ==
    flatten([k \in 1..Len(markdown) |-> renderLine(markdown[k]) \o <<NL>>])

\* Bold, italic, strikethrough, links, headings and single-level lists only.
inlineAndLists(markdown) ==
    \A k \in 1..Len(markdown) :
        markdown[k].kind \in {"blank", "heading", "text", "bullet", "ordered"}

\* C14: a markdown text of headings, marked text, links and single-level
\* ordered and unordered lists that replaceDocumentWithMarkdown wrote into a
\* document reads back from convertDocsJsonToMarkdown as the same markdown, up
\* to whitespace: the same heading levels, the same marks on the same text,
\* ordered items as ordered items and unordered items as unordered items.
C14_MarkdownRoundTrip ==
    (mcall.name = "readGoogleDoc" /\ mwritten.valid /\ inlineAndLists(mwritten.markdown))
    => squeeze(withoutRule(mout.markdown)) = squeeze(renderMarkdown(mwritten.markdown))

\* ------------------------------------------------------------------------
\* Properties of the paragraph and cell builders
\* ------------------------------------------------------------------------
\* The lengths, each plus one, of the paragraphs before the k-th.
RECURSIVE lengthsBefore(_, _)
lengthsBefore(paraData, k) ==
    IF k <= 1 THEN 0
    ELSE lengthsBefore(paraData, k - 1) + Len(runsText(paraData[k - 1].runs)) + 1

hasRequest(requests, kind) == \E j \in 1..Len(requests) : requests[j].kind = kind

\* C15: in restoreParagraphBatch and copyParagraphBatch the start offset of the
\* k-th paragraph is the insertion point plus the sum, over the paragraphs
\* before it, of text length + 1, whatever run styles, named styles or images
\* the paragraphs carry; and after the one combined insertText the paragraph's
\* text, then its newline, stand at that offset.
C15_OffsetMonotonicity ==
    (bout.name \in {"restoreParagraphBatch", "copyParagraphBatch"} /\ bout.planned)
    => /\ Len(bout.starts) = Len(bout.paraData)
       /\ bout.insertPoint = getInsertionPoint(bgiven.target)
       /\ bout.requests[1].kind = "insertText"
       /\ bout.requests[1].startIndex = bout.insertPoint
       /\ \A j \in 2..Len(bout.requests) : bout.requests[j].kind # "insertText"
       /\ \A k \in 1..Len(bout.paraData) :
            /\ bout.starts[k]
                  = bout.insertPoint + lengthsBefore(bout.paraData, k)
            /\ SubSeq(applyRequest(bgiven.target, bout.requests[1]),
                      bout.starts[k],
                      bout.starts[k] + Len(runsText(bout.paraData[k].runs)))
                  = runsText(bout.paraData[k].runs) \o <<NL>>

\* Three paragraphs with a styled run, a heading and an image, appended to a
\* document that already has text.
C15_Witness ==
    /\ bout.name = "restoreParagraphBatch" /\ bout.planned
    /\ Len(bout.starts) >= 3
    /\ bout.starts[2] > bout.starts[1] + 1
    /\ bout.insertPoint > 1
    /\ hasRequest(bout.requests, "updateTextStyle")
    /\ hasRequest(bout.requests, "updateParagraphStyle")
    /\ \E k \in 1..Len(bout.paraData) : Len(bout.paraData[k].imageInfo) > 0

\* The ranges of the runs of a paragraph or cell starting at start that have
\* a style record and at least one character.
runStart(runs, j, start) == start + Len(runsText(SubSeq(runs, 1, j - 1)))

styledRanges(runs, start) ==
    {<<runStart(runs, j, start), runStart(runs, j, start) + Len(runs[j].text)>> :
        j \in {i \in 1..Len(runs) :
                  runs[i].style # NoTextStyle /\ Len(runs[i].text) > 0}}

RECURSIVE styledRunCount(_, _)
styledRunCount(paraData, k) ==
    IF k = 0 THEN 0
    ELSE styledRunCount(paraData, k - 1)
         + Cardinality(styledRanges(paraData[k].runs, 0))

namedParagraphs(paraData) ==
    {k \in 1..Len(paraData) : paraData[k].namedStyle \notin {"", NORMAL_TEXT}}

requestsOfKind(requests, kind) == SelectSeq(requests, LAMBDA req : req.kind = kind)

\* C16: the paragraph builders and the cell builder make an updateTextStyle
\* request only for a run that has a style record and at least one character,
\* and an updateParagraphStyle request only for a paragraph whose named style
\* is present and not NORMAL_TEXT; so the style requests are at most the styled
\* non-empty runs plus the paragraphs with such a named style.
C16_EmptyStyleElision ==
    /\ bout.name \in {"restoreParagraphBatch", "copyParagraphBatch"}
       => /\ \A j \in 1..Len(bout.requests) :
               /\ bout.requests[j].kind = "updateTextStyle"
                  => \E k \in 1..Len(bout.paraData) :
                        <<bout.requests[j].startIndex, bout.requests[j].endIndex>>
                            \in styledRanges(bout.paraData[k].runs, bout.starts[k])
               /\ bout.requests[j].kind = "updateParagraphStyle"
                  => \E k \in namedParagraphs(bout.paraData) :
                        /\ bout.requests[j].startIndex = bout.starts[k]
                        /\ bout.requests[j].namedStyleType = bout.paraData[k].namedStyle
          /\ Len(requestsOfKind(bout.requests, "updateTextStyle"))
                <= styledRunCount(bout.paraData, Len(bout.paraData))
          /\ Len(requestsOfKind(bout.requests, "updateParagraphStyle"))
                <= Cardinality(namedParagraphs(bout.paraData))
          /\ Len(requestsOfKind(bout.requests, "insertText")) <= 1
          /\ Len(bout.requests)
                <= 1 + styledRunCount(bout.paraData, Len(bout.paraData))
                     + Cardinality(namedParagraphs(bout.paraData))
    /\ bout.name = "buildFormattedCellFormatRequests"
       => /\ \A j \in 1..Len(bout.requests) :
               /\ bout.requests[j].kind = "updateTextStyle"
               /\ <<bout.requests[j].startIndex, bout.requests[j].endIndex>>
                     \in styledRanges(bgiven.runs, bgiven.cellStartIndex)
          /\ Len(bout.requests)
                <= Cardinality(styledRanges(bgiven.runs, bgiven.cellStartIndex))

\* A batch with a styled run and a heading, and with an unstyled run, a
\* NORMAL_TEXT paragraph and a paragraph without named style that get no
\* request.
C16_Witness ==
    /\ bout.name = "restoreParagraphBatch" /\ bout.planned
    /\ hasRequest(bout.requests, "updateTextStyle")
    /\ hasRequest(bout.requests, "updateParagraphStyle")
    /\ \E k \in 1..Len(bout.paraData) : bout.paraData[k].namedStyle = ""
    /\ \E k \in 1..Len(bout.paraData) : bout.paraData[k].namedStyle = NORMAL_TEXT
    /\ \E k \in 1..Len(bout.paraData) : \E j \in 1..Len(bout.paraData[k].runs) :
          bout.paraData[k].runs[j].style = NoTextStyle

\* ------------------------------------------------------------------------
\* Properties of the markdown orchestrator
\* ------------------------------------------------------------------------
\* C17: one call of replaceDocumentWithMarkdown or appendMarkdownToGoogleDoc
\* runs at most 10 parser passes: the phases executeMarkdownWithTables logged
\* are at most 10, and a markdown that needs more ends in the recursion-limit
\* error after the tenth.
C17_AtMostTenPasses ==
    mcall.name \in {"replaceDocumentWithMarkdown", "appendMarkdownToGoogleDoc"}
    => mout.phases <= MAX_DEPTH

\* ------------------------------------------------------------------------
\* Properties of a restore with expired images
\* ------------------------------------------------------------------------
restoredBy(op) == last.op = op /\ last.status \in {"ok", "RestoreFailed"}

\* C18: when undoLastChange or redoLastChange restores a snapshot one of whose
\* images can no longer be inserted, in a paragraph or in a table cell, the
\* restore is not aborted: the call returns normally and every other image of
\* the snapshot is in the document.
C18_ImageFailureNeverAborts ==
    ((restoredBy("undoLastChange") \/ restoredBy("redoLastChange"))
     /\ last.snapshot.inlineObjects \cap expired # {})
    => /\ last.status = "ok"
       /\ last.snapshot.inlineObjects \ expired \subseteq inlineObjectsOf(doc)

\* Every table row of the markdown has text in one of its cells.
everyRowHasText(markdown) ==
    \A k \in 1..Len(markdown) :
        markdown[k].kind = "row"
        => \E c \in 1..Len(markdown[k].cells) : markdown[k].cells[c] # <<>>

\* C19: the table count that replaceDocumentWithMarkdown and
\* appendMarkdownToGoogleDoc report is the number of tables whose cells
\* fillPendingTables filled: a table it could not locate and skipped is not
\* counted.
C19_TablesCountedAreFilled ==
    (mcall.name \in {"replaceDocumentWithMarkdown", "appendMarkdownToGoogleDoc"}
     /\ mout.ok /\ everyRowHasText(mcall.markdown))
    => mout.totalTables = mout.filled

\* The place of a request in the order insert, paragraph style, run style,
\* list bullets.
orderOf(req) ==
    CASE req.kind = "updateParagraphStyle" -> 2
      [] req.kind = "updateTextStyle" -> 3
      [] req.kind = "createParagraphBullets" -> 4
      [] OTHER -> 1

inBatchOrder(requests) ==
    \A i \in 1..Len(requests) : \A j \in i..Len(requests) :
        orderOf(requests[i]) <= orderOf(requests[j])

\* C20: the requests of one planned batch stand in the order insert,
\* paragraph style, run style, list bullets: no updateTextStyle before an
\* updateParagraphStyle and no style request before an insert, in the list
\* of the paragraph builders and in the list convertMarkdownToRequestsWithTables
\* returns.
C20_RequestOrder ==
    /\ (mcall.name = "convertMarkdownToRequestsWithTables" /\ mout.ok)
       => inBatchOrder(mout.result.requests)
    /\ bout.name \in {"restoreParagraphBatch", "copyParagraphBatch"}
       => inBatchOrder(bout.requests)

\* ------------------------------------------------------------------------
\* Properties of the single and the batch cell edit
\* ------------------------------------------------------------------------
\* C25: for one edit (row, col, text), buildBatchEditCellRequests of the list
\* holding that edit returns what buildEditCellRequests returns for it: the
\* same request list, or the same error, whatever the cell holds and whatever
\* the text, the empty text included.
C25_SingleEditSameAsBatch ==
    tcall.name = "editTableCell"
    => /\ buildBatchEditCellRequests(documentsGet(tpre), tcall.tableIndex,
                                     tcall.edits).ok = tout.ok
       /\ tout.ok
          => buildBatchEditCellRequests(documentsGet(tpre), tcall.tableIndex,
                                        tcall.edits).value = tout.requests

\* ------------------------------------------------------------------------
\* Properties of the cell extraction
\* ------------------------------------------------------------------------
\* The text of the paragraphs p1..pn of a cell, an in-cell break between each
\* two: p1 VT p2 VT ... pn.
RECURSIVE joinedByBreaks(_, _)
joinedByBreaks(paragraphs, k) ==
    IF k > Len(paragraphs) THEN <<>>
    ELSE paragraphText(paragraphs[k])
         \o (IF k < Len(paragraphs) THEN <<VT>> ELSE <<>>)
         \o joinedByBreaks(paragraphs, k + 1)

\* C23: the run text extractFormattedCellContent gives for a cell with the
\* paragraphs p1..pn is p1, break, p2, break, ... pn: one in-cell break per
\* paragraph boundary, no newline left, the cell's closing newline stripped,
\* and no run of length zero.
C23_OneBreakPerBoundary ==
    bout.name = "extractFormattedCellContent"
    => /\ runsText(bout.content.runs) = joinedByBreaks(bgiven.cell.content, 1)
       /\ \A k \in 1..Len(bout.content.runs) : Len(bout.content.runs[k].text) > 0
       /\ \A k \in 1..Len(runsText(bout.content.runs)) :
             runsText(bout.content.runs)[k] # NL

\* ------------------------------------------------------------------------
\* Properties of replaceDocumentWithMarkdown
\* ------------------------------------------------------------------------
\* Step 2 of replaceDocumentWithMarkdown: where the markdown is written.
replaceStartIndex(remote, preserveTitle) ==
    IF preserveTitle THEN firstParagraphEnd(documentsGet(remote.flat)) ELSE 1

\* The body the markdown is written to: the document after step 3's delete.
afterDelete(remote, preserveTitle) ==
    documentsGet(deleteExisting(remote, replaceStartIndex(remote, preserveTitle),
                                lastEndIndex(documentsGet(remote.flat)) - 1).flat)

\* C28: the index replaceDocumentWithMarkdown hands to executeMarkdownWithTables
\* is a valid insertion index of the document as the delete left it:
\* 1 <= startIndex <= (end index of the last element) - 1, for both values of
\* preserveTitle.
C28_StartIndexValid ==
    [][(mcall.name = "none" /\ mcall'.name = "replaceDocumentWithMarkdown")
       => /\ 1 <= replaceStartIndex(mdoc, mcall'.flag)
          /\ replaceStartIndex(mdoc, mcall'.flag)
               <= lastEndIndex(afterDelete(mdoc, mcall'.flag)) - 1]_vars

\* The same, for every call that leaves more than the title to delete or keeps
\* no title.
C28_StartIndexValidBeyondTitle ==
    [][(/\ mcall.name = "none"
        /\ mcall'.name = "replaceDocumentWithMarkdown"
        /\ (mcall'.flag => Cardinality({k \in 1..Len(mdoc.flat) : mdoc.flat[k] = NL}) > 1))
       => /\ 1 <= replaceStartIndex(mdoc, mcall'.flag)
          /\ replaceStartIndex(mdoc, mcall'.flag)
               <= lastEndIndex(afterDelete(mdoc, mcall'.flag)) - 1]_vars

\* ------------------------------------------------------------------------
\* Properties of the passes of executeMarkdownWithTables
\* ------------------------------------------------------------------------
\* C29: the markdown a pass of executeMarkdownWithTables leaves for the next
\* pass, the postTableContent of its conversion, has strictly fewer lines than
\* the markdown the pass was given, so the recursion ends whatever the depth
\* guard is.
C29_RemainderShrinks ==
    (converted /\ mout.result.postTableContent # <<>>)
    => Len(mout.result.postTableContent) < Len(mcall.markdown)

\* A conversion has stopped at a table and left a markdown with another
\* table in it for the next pass.
C29_Witness ==
    /\ converted
    /\ mout.result.postTableContent # <<>>
    /\ firstTableLine(mout.result.postTableContent) > 0
    /\ Len(mout.result.postTableContent) < Len(mcall.markdown)

\* ------------------------------------------------------------------------
\* Properties of the grouping of a snapshot's body
\* ------------------------------------------------------------------------
\* The elements of a body that are restored, in body order.
bodyItems(body) ==
    [k \in 1..Len(SelectSeq(body, LAMBDA el : el.kind # "sectionBreak")) |->
        LET el == SelectSeq(body, LAMBDA e : e.kind # "sectionBreak")[k]
        IN IF el.kind = "table" THEN <<"table", el.table>> ELSE <<"paragraph", el>>]

\* The elements the groups hold, in group order.
groupItems(elementGroups) ==
    flatten([g \in 1..Len(elementGroups) |->
        IF elementGroups[g].type = "table"
        THEN <<<<"table", elementGroups[g].table>>>>
        ELSE [k \in 1..Len(elementGroups[g].elements) |->
                <<"paragraph", elementGroups[g].elements[k]>>]])

\* The characters of a document other than its breaks, in document order.
contentTokens(flat) ==
    SelectSeq(flat, LAMBDA t : t \notin {NL, VT, TableStart, RowStart, CellStart,
                                        TableEnd} \cup ImageIds)

RECURSIVE bodyTokens(_, _)
bodyTokens(body, k) ==
    IF k > Len(body) THEN <<>>
    ELSE (IF body[k].kind = "paragraph"
          THEN contentTokens(flatten(paragraphTexts(<<body[k]>>)))
          ELSE IF body[k].kind = "table"
          THEN contentTokens(flatten(flatten(
                  [r \in 1..Len(body[k].table.tableRows) |->
                     [c \in 1..Len(body[k].table.tableRows[r].tableCells) |->
                        flatten(paragraphTexts(
                            body[k].table.tableRows[r].tableCells[c].content))]])))
          ELSE <<>>)
         \o bodyTokens(body, k + 1)

\* C24: restoreDocumentContent groups the body of a snapshot so that every
\* table is a group of its own, the paragraph groups are maximal runs of
\* paragraphs (no two paragraph groups follow each other, none is empty), a
\* section break is dropped without ending the paragraph run it is in, and
\* the groups hold every other element exactly once in body order; the groups
\* are replayed in that order, each after a read of the document's end.
C24_GroupsPartitionBody ==
    bout.name = "restoreDocumentContent"
    => /\ groupItems(bout.groups) = bodyItems(bgiven.snapshot.body)
       /\ \A g \in 1..Len(bout.groups) :
             /\ bout.groups[g].type \in {"paragraphs", "table"}
             /\ bout.groups[g].type = "paragraphs"
                => /\ Len(bout.groups[g].elements) > 0
                   /\ g < Len(bout.groups) => bout.groups[g + 1].type = "table"
       /\ bout.restore.ok
       /\ bout.restore.reads >= 1 + Len(bout.groups)
       /\ contentTokens(bout.restore.doc) = bodyTokens(bgiven.snapshot.body, 1)

\* A snapshot with a section break between two paragraphs and with a table
\* has been restored.
C24_Witness ==
    /\ bout.name = "restoreDocumentContent"
    /\ \E k \in 2..(Len(bgiven.snapshot.body) - 1) :
          /\ bgiven.snapshot.body[k].kind = "sectionBreak"
          /\ bgiven.snapshot.body[k - 1].kind = "paragraph"
          /\ bgiven.snapshot.body[k + 1].kind = "paragraph"
    /\ \E g \in 1..Len(bout.groups) : bout.groups[g].type = "table"
    /\ Len(bout.groups) = 3

\* ------------------------------------------------------------------------
\* Properties of the image phase
\* ------------------------------------------------------------------------
\* The source paragraphs as they are to stand in the target: all of their
\* text, and every image the service still accepts.
expectedBatch == SelectSeq(bgiven.source.flat, LAMBDA t : t \notin expired)

imageCalls == sortInsertsDescending(paragraphImageInserts(bout.paraData, bout.starts))

imagePhaseDone ==
    /\ bout.name \in {"restoreParagraphBatch", "copyParagraphBatch"}
    /\ bout.planned

\* C22: the images of a paragraph batch are inserted in calls of
\* non-increasing index, and after the last call every image stands where it
\* stood in the source: the target holds, from the insertion point on, the
\* source's text with each accepted image at its source position, two adjacent
\* images in their source order, and a rejected image moves no other image.
C22_ImagesLandInPlace ==
    imagePhaseDone
    => /\ \A k \in 1..(Len(imageCalls) - 1) :
             imageCalls[k].startIndex >= imageCalls[k + 1].startIndex
       /\ Len(bout.done.flat) >= bout.insertPoint + Len(expectedBatch) - 1
       /\ SubSeq(bout.done.flat, bout.insertPoint,
                 bout.insertPoint + Len(expectedBatch) - 1) = expectedBatch

\* The same, for the sources without two images next to each other.
C22_ImagesLandInPlaceApart ==
    (imagePhaseDone
     /\ \A p \in 1..(Len(bgiven.source.flat) - 1) :
           ~(bgiven.source.flat[p] \in ImageIds /\ bgiven.source.flat[p + 1] \in ImageIds))
    => /\ \A k \in 1..(Len(imageCalls) - 1) :
             imageCalls[k].startIndex >= imageCalls[k + 1].startIndex
       /\ Len(bout.done.flat) >= bout.insertPoint + Len(expectedBatch) - 1
       /\ SubSeq(bout.done.flat, bout.insertPoint,
                 bout.insertPoint + Len(expectedBatch) - 1) = expectedBatch

\* ------------------------------------------------------------------------
\* Properties of the list items
\* ------------------------------------------------------------------------
ListOpens == {"bullet_list_open", "ordered_list_open"}
ListCloses == {"bullet_list_close", "ordered_list_close"}

\* The list_item_close that matches the list_item_open before position q.
RECURSIVE matchingClose(_, _, _)
matchingClose(tokens, q, depth) ==
    IF tokens[q].type = "list_item_open" THEN matchingClose(tokens, q + 1, depth + 1)
    ELSE IF tokens[q].type = "list_item_close"
    THEN IF depth = 0 THEN q ELSE matchingClose(tokens, q + 1, depth - 1)
    ELSE matchingClose(tokens, q + 1, depth)

\* The list open token of the list the item after position q is an item of.
RECURSIVE enclosingList(_, _, _)
enclosingList(tokens, q, depth) ==
    IF tokens[q].type \in ListCloses THEN enclosingList(tokens, q - 1, depth + 1)
    ELSE IF tokens[q].type \in ListOpens
    THEN IF depth = 0 THEN tokens[q].type ELSE enclosingList(tokens, q - 1, depth - 1)
    ELSE enclosingList(tokens, q - 1, depth)

\* Where the item's own content ends: at the list inside it, or at its close.
ownContentEnd(tokens, p) ==
    Min({q \in (p + 1)..matchingClose(tokens, p + 1, 0) :
            tokens[q].type \in ListOpens \/ q = matchingClose(tokens, p + 1, 0)})

\* The offset the converter has reached before the token at position q.
offsetBefore(tokens, q, startIndex) ==
    processTokens(SubSeq(tokens, 1, q - 1), 1, newContext(startIndex)).currentIndex

\* The list items that are opened before the conversion stops at a table.
itemsOpened(tokens, startIndex) ==
    {p \in 1..Len(tokens) :
        /\ tokens[p].type = "list_item_open"
        /\ ~processTokens(SubSeq(tokens, 1, p - 1), 1,
                          newContext(startIndex)).stopAfterTable}

expectedBullets(tokens, p, startIndex) ==
    CreateParagraphBullets(offsetBefore(tokens, p, startIndex),
        offsetBefore(tokens, ownContentEnd(tokens, p), startIndex),
        IF enclosingList(tokens, p - 1, 0) = "ordered_list_open"
        THEN "NUMBERED_DECIMAL_ALPHA_ROMAN" ELSE "BULLET_DISC_CIRCLE_SQUARE")

bulletsAsked(requests) ==
    SelectSeq(requests, LAMBDA req : req.kind = "createParagraphBullets")

\* C21: for every list item opened and closed in the token stream, an item of
\* a nested list included, the conversion has exactly one
\* createParagraphBullets request from the offset where the item opened to
\* the offset where its own content ended, with the preset of its list
\* (ordered: NUMBERED_DECIMAL_ALPHA_ROMAN, else BULLET_DISC_CIRCLE_SQUARE),
\* and no other createParagraphBullets request.
C21_OneBulletRequestPerItem ==
    converted
    => /\ \A p \in itemsOpened(parseMarkdown(mcall.markdown), mcall.startIndex) :
             Cardinality({k \in 1..Len(mout.result.requests) :
                 mout.result.requests[k]
                   = expectedBullets(parseMarkdown(mcall.markdown), p,
                                     mcall.startIndex)}) = 1
       /\ Len(bulletsAsked(mout.result.requests))
            = Cardinality(itemsOpened(parseMarkdown(mcall.markdown), mcall.startIndex))

\* The same, for the markdown texts without a list inside a list item.
C21_OneBulletRequestPerFlatItem ==
    (converted /\ \A k \in 1..Len(mcall.markdown) :
                     ~(mcall.markdown[k].kind \in {"bullet", "ordered"}
                       /\ mcall.markdown[k].level > 0))
    => /\ \A p \in itemsOpened(parseMarkdown(mcall.markdown), mcall.startIndex) :
             Cardinality({k \in 1..Len(mout.result.requests) :
                 mout.result.requests[k]
                   = expectedBullets(parseMarkdown(mcall.markdown), p,
                                     mcall.startIndex)}) = 1
       /\ Len(bulletsAsked(mout.result.requests))
            = Cardinality(itemsOpened(parseMarkdown(mcall.markdown), mcall.startIndex))

\* ------------------------------------------------------------------------
\* Properties of interleaved and failing undo and redo calls
\* ------------------------------------------------------------------------
passedCheck(c) ==
    /\ calls[c].pc \in {"restoring", "done"}
    /\ calls[c].status \notin {"EmptyHistory", "ReadFailed"}

\* C26: when undoLastChange and redoLastChange calls on one document
\* interleave at their awaits, every call that passed its emptiness check
\* pops a snapshot that exists, so the restore is never started with what
\* pop() gives on an empty stack, and the two stacks together never hold more
\* entries than before the calls.
C26_EveryPopFindsASnapshot ==
    /\ \A c \in Callers : passedCheck(c) => ~calls[c].isUndefined
    /\ Len(undoStack) + Len(redoStack) <= Len(pre.undoStack) + Len(pre.redoStack)

\* The same, while no two calls have run beside each other.
C26_EveryPopFindsASnapshotAlone ==
    (\A c \in Callers : calls[c].alone)
    => /\ \A c \in Callers : passedCheck(c) => ~calls[c].isUndefined
       /\ Len(undoStack) + Len(redoStack) <= Len(pre.undoStack) + Len(pre.redoStack)

ranAlone(c, op, status) ==
    /\ calls[c].op = op
    /\ calls[c].pc = "done"
    /\ calls[c].status = status
    /\ calls[c].alone

stackIds(stack) == {stack[k].id : k \in 1..Len(stack)}

\* C30: a call of undoLastChange whose first read of the document fails
\* leaves both stacks as they were.  A call whose restore fails after the pop
\* is not rolled back: the popped snapshot, the top of the undo stack before
\* the call, is on neither stack, the pre-undo capture is the top of the redo
\* stack, and the two stacks hold as many entries as before the call.
\* redoLastChange does the same with the stacks exchanged.
C30_NoRollbackOnFailure ==
    \A c \in Callers :
        /\ (ranAlone(c, "undoLastChange", "ReadFailed")
            \/ ranAlone(c, "redoLastChange", "ReadFailed"))
           => /\ undoStack = calls[c].before.undoStack
              /\ redoStack = calls[c].before.redoStack
        /\ ranAlone(c, "undoLastChange", "RestoreFailed")
           => /\ calls[c].popped
                    = calls[c].before.undoStack[Len(calls[c].before.undoStack)]
              /\ undoStack = SubSeq(calls[c].before.undoStack, 1,
                                    Len(calls[c].before.undoStack) - 1)
              /\ redoStack = Append(calls[c].before.redoStack, calls[c].captured)
              /\ calls[c].captured.label = "pre-undo state"
              /\ calls[c].popped.id \notin stackIds(undoStack) \cup stackIds(redoStack)
              /\ Len(undoStack) + Len(redoStack)
                    = Len(calls[c].before.undoStack) + Len(calls[c].before.redoStack)
        /\ ranAlone(c, "redoLastChange", "RestoreFailed")
           => /\ calls[c].popped
                    = calls[c].before.redoStack[Len(calls[c].before.redoStack)]
              /\ redoStack = SubSeq(calls[c].before.redoStack, 1,
                                    Len(calls[c].before.redoStack) - 1)
              /\ undoStack = Append(calls[c].before.undoStack, calls[c].captured)
              /\ calls[c].captured.label = "pre-redo state"
              /\ calls[c].popped.id \notin stackIds(undoStack) \cup stackIds(redoStack)
              /\ Len(undoStack) + Len(redoStack)
                    = Len(calls[c].before.undoStack) + Len(calls[c].before.redoStack)

\* An undo call that ran alone, on an undo stack of two snapshots, has failed
\* in the restore.
C30_Witness ==
    \E c \in Callers :
        /\ ranAlone(c, "undoLastChange", "RestoreFailed")
        /\ Len(calls[c].before.undoStack) = 2
        /\ Len(undoStack) = 1

\* ------------------------------------------------------------------------
\* Properties of the formatted cell edit
\* ------------------------------------------------------------------------
NewCharacters == {"x", "y"}

\* The cell of the edit, as the document reads after the text phase.
editedCell(flat, edit) ==
    getCellElement(getTableElement(documentsGet(flat), 0).value.table,
                   edit.row, edit.col).value

\* Where the text phase put the first character of the edit's text.
newTextStart(flat, edit) ==
    Min({p \in editedCell(flat, edit).startIndex..(editedCell(flat, edit).endIndex - 1) :
            flat[p] \in NewCharacters})

\* The updateTextStyle requests over the runs as they stand from offset on.
RECURSIVE runRanges(_, _, _)
runRanges(runs, k, offset) ==
    IF k > Len(runs) THEN <<>>
    ELSE (IF runs[k].style # NoTextStyle /\ Len(runs[k].text) > 0
          THEN <<UpdateTextStyle(offset, offset + Len(runs[k].text),
                                 runs[k].style.marks, runs[k].style.link)>>
          ELSE <<>>)
         \o runRanges(runs, k + 1, offset + Len(runs[k].text))

formattedEditDone ==
    bout.name = "batchEditTableCellsFormatted" /\ bout.planned

\* C27: after batchEditTableCellsFormatted, the updateTextStyle requests of
\* phase 2 are, cell by cell and styled run by styled run, over the very
\* characters the text phase inserted for that run: the range of a run starts
\* where the cell's new text starts plus the lengths of the runs before it,
\* whatever the cell held before, a first paragraph with only an image
\* included.
C27_FormatRangesOnInsertedRuns ==
    formattedEditDone
    => bout.requests
         = flatten([k \in 1..Len(SelectSeq(bgiven.cells,
                                           LAMBDA c : hasStyledRun(c.runs))) |->
              runRanges(SelectSeq(bgiven.cells, LAMBDA c : hasStyledRun(c.runs))[k].runs,
                        1,
                        newTextStart(bout.inserted.flat,
                            SelectSeq(bgiven.cells,
                                      LAMBDA c : hasStyledRun(c.runs))[k]))])

\* A cell whose first paragraph holds only images and is followed by others.
imageOnlyFirstParagraph(paragraphs) ==
    /\ Len(paragraphs) > 1
    /\ paragraphs[1] # <<>>
    /\ \A k \in 1..Len(paragraphs[1]) : paragraphs[1][k] \in ImageIds

\* The same, for every other cell.
C27_FormatRangesElsewhere ==
    (formattedEditDone
     /\ \A k \in 1..Len(bgiven.cells) :
           ~imageOnlyFirstParagraph(FormattedCells[bgiven.cells[k].col + 1]))
    => bout.requests
         = flatten([k \in 1..Len(SelectSeq(bgiven.cells,
                                           LAMBDA c : hasStyledRun(c.runs))) |->
              runRanges(SelectSeq(bgiven.cells, LAMBDA c : hasStyledRun(c.runs))[k].runs,
                        1,
                        newTextStart(bout.inserted.flat,
                            SelectSeq(bgiven.cells,
                                      LAMBDA c : hasStyledRun(c.runs))[k]))])

====
